---- MODULE Spec2Model ----
(***************************************************************************)
(* Model of the Azure Policy visual editor (AhmedAsfoor/Policy-Generator). *)
(*                                                                         *)
(* JavaScript objects are TLA+ records (functions over strings): the test  *)
(* 'k' in o is  k \in DOMAIN o,  {[k]: v} is  k :> v  and the spread       *)
(* {...o, k: v} is  (k :> v) @@ o.  A slot that holds values of several    *)
(* JavaScript types (a Simple's operator value, a Count's threshold, a     *)
(* parameter's defaultValue) holds a tagged record: Str(s), Num(n), Arr(a).*)
(***************************************************************************)
EXTENDS Integers, Sequences, FiniteSets, TLC

VARIABLES
  policy,             \* usePolicyEditorState: the PolicyTemplate document
  selectedEffect,     \* usePolicyEditorState: the effect <select> value
  activeTab,          \* usePolicyEditorState: the tab shown
  parameterForm,      \* useParameters: the parameter form
  editingParameter,   \* useParameters: name being edited, or Null
  nameError,          \* useParameters: error text under the name input
  allowedValuesError, \* useParameters: error text under allowed values
  defaultValueError,  \* useParameters: error text under default value
  timers,             \* pending 200 ms blur timers of the searchable inputs
  last                \* history: the last commit of a blur timer

vars == <<policy, selectedEffect, activeTab, parameterForm, editingParameter,
          nameError, allowedValuesError, defaultValueError, timers, last>>

-----------------------------------------------------------------------------
(* Bounds of the model *)

\* condition nodes below the root group (leaves and groups, where-groups excluded)
MaxNodes == 2
\* nesting depth of groups below the root group
MaxDepth == 2

-----------------------------------------------------------------------------
(* JavaScript values *)

Null == [null |-> TRUE]
Str(s) == [str |-> s]
Num(n) == [num |-> n]
Arr(a) == [arr |-> a]
Undefined == [undefined |-> TRUE]

Has(o, k) == k \in DOMAIN o

\* const { [k]: _, ...rest } = o
Omit(o, k) == [x \in DOMAIN o \ {k} |-> o[x]]

\* Object.keys(o).find(key => key !== k) || dflt.  Every object the editor
\* builds for a leaf has one key besides k, so insertion order plays no part.
FirstKeyNot(o, k, dflt) ==
  IF DOMAIN o \ {k} = {} THEN dflt ELSE CHOOSE x \in DOMAIN o \ {k} : TRUE

\* arr.filter((_, i) => i !== idx), idx counted from 0
FilterOut(arr, idx) ==
  [j \in 1..(Len(arr) - (IF idx \in 0..(Len(arr) - 1) THEN 1 ELSE 0)) |->
     IF j <= idx THEN arr[j] ELSE arr[j + 1]]

\* arr[idx], idx counted from 0: undefined outside the array
At(arr, idx) == IF idx \in 0..(Len(arr) - 1) THEN arr[idx + 1] ELSE Undefined

\* const a = [...arr]; a[idx] = v   (idx counted from 0).  An index behind the
\* end lengthens the array, and the elements skipped read as undefined; a
\* negative index names a property that is no element of the array.
SetAt(arr, idx, v) ==
  IF idx < 0 THEN arr
  ELSE [j \in 1..(IF idx + 1 > Len(arr) THEN idx + 1 ELSE Len(arr)) |->
          IF j = idx + 1 THEN v ELSE IF j <= Len(arr) THEN arr[j] ELSE Undefined]

-----------------------------------------------------------------------------
(* Type guards: components/ConditionGroup/types/index.ts *)

isSimpleCondition(c) ==
  \/ Has(c, "field") /\ ~Has(c, "count")
  \/ Has(c, "not") /\ Has(c["not"], "field")

\* faulty variant: a negated Count is not recognised
isCountCondition_plain(c) == Has(c, "count")

isCountCondition(c) ==
  \/ Has(c, "count")
  \/ Has(c, "not") /\ Has(c["not"], "count")

isNestedCondition(c) ==
  IF Has(c, "not")
    THEN Has(c["not"], "allOf") \/ Has(c["not"], "anyOf")
    ELSE (Has(c, "allOf") \/ Has(c, "anyOf")) /\ ~Has(c, "count")

\* ConditionItem: which editor a child is rendered with
Editor(c) ==
  IF isSimpleCondition(c) THEN "simple"
  ELSE IF isCountCondition(c) THEN "count"
  ELSE IF isNestedCondition(c) THEN "nested"
  ELSE "none"

-----------------------------------------------------------------------------
(* useConditionGroup: each handler's argument to onUpdate *)

NewSimple == [field |-> "", equals |-> Str("")]
NewGroup == [anyOf |-> <<>>]
NewCount == [count |-> [field |-> "", where |-> [anyOf |-> <<>>]], greater |-> Num(0)]

handleAddCondition(conditions) == <<NewSimple>> \o conditions

\* faulty variant: the new group is never wrapped
handleAddNestedGroup_plain(conditions, isNot) == conditions \o <<NewGroup>>

handleAddNestedGroup(conditions, isNot) ==
  conditions \o <<IF isNot THEN [not |-> NewGroup] ELSE NewGroup>>

\* faulty variant: the new Count is appended
handleAddCountCondition_appends(conditions) == conditions \o <<NewCount>>

handleAddCountCondition(conditions) == <<NewCount>> \o conditions

handleUpdateCondition(conditions, idx, updated) == SetAt(conditions, idx, updated)

\* faulty variant: no guard for the only child
handleRemoveCondition_unguarded(conditions, idx) == FilterOut(conditions, idx)

handleRemoveCondition(conditions, idx) ==
  IF Len(conditions) = 1 THEN <<NewSimple>> ELSE FilterOut(conditions, idx)

\* faulty variant: no test for the first child going up, the last going down
handleMoveCondition_unguarded(conditions, idx, direction) ==
  LET targetIdx == IF direction = "up" THEN idx - 1 ELSE idx + 1
  IN  SetAt(SetAt(conditions, idx, At(conditions, targetIdx)),
            targetIdx, At(conditions, idx))

\* faulty variant: the neighbour is copied over the child, not exchanged
handleMoveCondition_overwrites(conditions, idx, direction) ==
  IF (direction = "up" /\ idx = 0) \/ (direction = "down" /\ idx = Len(conditions) - 1)
    THEN conditions
    ELSE LET targetIdx == IF direction = "up" THEN idx - 1 ELSE idx + 1
         IN  SetAt(conditions, idx, At(conditions, targetIdx))

\* direction is "up" or "down"; at the boundary the handler returns without
\* calling onUpdate, which leaves the conditions as they are
handleMoveCondition(conditions, idx, direction) ==
  IF (direction = "up" /\ idx = 0) \/ (direction = "down" /\ idx = Len(conditions) - 1)
    THEN conditions
    ELSE LET targetIdx == IF direction = "up" THEN idx - 1 ELSE idx + 1
         IN  SetAt(SetAt(conditions, idx, At(conditions, targetIdx)),
                   targetIdx, At(conditions, idx))

\* faulty variant: the new kind is added to the group, the old one stays
useConditionGroup_handleToggleGroupType_keepsOld(conditions, idx) ==
  LET condition == At(conditions, idx) IN
  \* 'not' in undefined throws a TypeError before onUpdate is called
  IF condition = Undefined THEN conditions
  ELSE IF ~isNestedCondition(condition) THEN conditions
  ELSE LET isConditionNot == Has(condition, "not")
           groupCondition == IF isConditionNot THEN condition["not"] ELSE condition
           currentConditions == IF Has(groupCondition, "allOf") THEN groupCondition["allOf"]
                                ELSE groupCondition["anyOf"]
           newType == IF Has(groupCondition, "allOf") THEN "anyOf" ELSE "allOf"
           newGroup == (newType :> currentConditions) @@ groupCondition
       IN  SetAt(conditions, idx, IF isConditionNot THEN [not |-> newGroup] ELSE newGroup)

useConditionGroup_handleToggleGroupType(conditions, idx) ==
  LET condition == At(conditions, idx) IN
  \* 'not' in undefined throws a TypeError before onUpdate is called
  IF condition = Undefined THEN conditions
  ELSE IF ~isNestedCondition(condition) THEN conditions
  ELSE LET isConditionNot == Has(condition, "not")
           groupCondition == IF isConditionNot THEN condition["not"] ELSE condition
           currentConditions == IF Has(groupCondition, "allOf") THEN groupCondition["allOf"]
                                ELSE IF Has(groupCondition, "anyOf") THEN groupCondition["anyOf"]
                                ELSE <<>>
           newType == IF Has(groupCondition, "allOf") THEN "anyOf" ELSE "allOf"
           newGroup == newType :> currentConditions
       IN  SetAt(conditions, idx, IF isConditionNot THEN [not |-> newGroup] ELSE newGroup)

-----------------------------------------------------------------------------
(* Text typed by the user, and what JSON.parse and Number make of it *)

\* JSON.parse over the texts the model types: [ok |-> FALSE] is a SyntaxError
JSONParse(text) ==
  CASE text = "[\"a\"]" -> [ok |-> TRUE, val |-> Arr(<<"a">>)]
    [] text = "[]"      -> [ok |-> TRUE, val |-> Arr(<<>>)]
    [] text = "5"       -> [ok |-> TRUE, val |-> Num(5)]
    [] text = "{}"      -> [ok |-> TRUE, val |-> [obj |-> <<>>]]
    [] OTHER            -> [ok |-> FALSE]

isArray(v) == Has(v, "arr")

\* the number Infinity
Infinity == [infinity |-> TRUE]

\* Number(text): [nan |-> TRUE] is NaN
ToNumber(text) ==
  CASE text = ""         -> Num(0)
    [] text = "5"        -> Num(5)
    [] text = "Infinity" -> Infinity
    [] OTHER             -> [nan |-> TRUE]

-----------------------------------------------------------------------------
(* useCondition: the Simple leaf editor (condition may be {not: Simple}) *)

useCondition_isNot(condition) == Has(condition, "not")

simpleCondition(condition) ==
  IF useCondition_isNot(condition) THEN condition["not"] ELSE condition

useCondition_operator(condition) ==
  FirstKeyNot(simpleCondition(condition), "field", "equals")

Rewrap(isNot, inner) == IF isNot THEN [not |-> inner] ELSE inner

useCondition_handleOperatorChange(condition, newOperator) ==
  LET sc == simpleCondition(condition)
      operator == useCondition_operator(condition)
      oldValue == IF Has(sc, operator) THEN sc[operator] ELSE Undefined
      rest == Omit(sc, operator)
      newCondition == (newOperator :> oldValue) @@ ("field" :> sc["field"]) @@ rest
  IN  Rewrap(useCondition_isNot(condition), newCondition)

\* faulty variant: unchecking the box hands back the condition still wrapped
handleNotToggle_keepsWrapper(condition, checked) ==
  IF checked THEN [not |-> simpleCondition(condition)] ELSE condition

\* NotToggle hands over e.target.checked, the box's state after the click
handleNotToggle(condition, checked) ==
  IF checked THEN [not |-> simpleCondition(condition)] ELSE simpleCondition(condition)

\* faulty variant: the field change hands back the Simple without its wrapper
useCondition_handleFieldChange_unwraps(condition, newField) ==
  ("field" :> newField) @@ simpleCondition(condition)

useCondition_handleFieldChange(condition, newField) ==
  Rewrap(useCondition_isNot(condition),
         ("field" :> newField) @@ simpleCondition(condition))

useCondition_handleValueChange(condition, newValue) ==
  LET operator == useCondition_operator(condition)
      parsed == JSONParse(newValue)
      processedValue ==
        IF operator \in {"in", "notIn"}
          THEN IF parsed.ok /\ isArray(parsed.val) THEN parsed.val ELSE Str(newValue)
          ELSE Str(newValue)
  IN  Rewrap(useCondition_isNot(condition),
             (operator :> processedValue) @@ simpleCondition(condition))

-----------------------------------------------------------------------------
(* useCountCondition: the Count leaf editor (condition may be {not: Count}) *)

isCountNot(condition) == Has(condition, "not")

CountBase(condition) == IF isCountNot(condition) THEN condition["not"] ELSE condition

getCurrentOperator(condition) == FirstKeyNot(CountBase(condition), "count", "greater")

getCurrentValue(condition) ==
  LET operator == getCurrentOperator(condition) IN
  IF Has(CountBase(condition), operator) THEN CountBase(condition)[operator] ELSE Undefined

useCountCondition_handleFieldChange(condition, field) ==
  LET base == CountBase(condition) IN
  Rewrap(isCountNot(condition),
         ("count" :> (("field" :> field) @@ base["count"])) @@ base)

\* faulty variant: the new comparator is added to the Count, the old one stays
useCountCondition_handleOperatorChange_keepsOld(condition, newOperator) ==
  Rewrap(isCountNot(condition),
         (newOperator :> getCurrentValue(condition)) @@ CountBase(condition))

useCountCondition_handleOperatorChange(condition, newOperator) ==
  Rewrap(isCountNot(condition),
         (newOperator :> getCurrentValue(condition))
           @@ ("count" :> CountBase(condition)["count"]))

useCountCondition_handleValueChange(condition, value) ==
  LET operator == getCurrentOperator(condition)
      isNumber == ~Has(ToNumber(value), "nan") /\ value # ""
      processedValue == IF isNumber THEN ToNumber(value) ELSE Str(value)
  IN  Rewrap(isCountNot(condition),
             (operator :> processedValue) @@ ("count" :> CountBase(condition)["count"]))

handleToggleCountNot(condition) ==
  LET operator == getCurrentOperator(condition)
      baseCondition == (operator :> getCurrentValue(condition))
                         @@ ("count" :> CountBase(condition)["count"])
  IN  IF isCountNot(condition) THEN baseCondition ELSE [not |-> baseCondition]

-----------------------------------------------------------------------------
(* useWhereCondition: the where-group of a Count *)

WhereOf(condition) == CountBase(condition)["count"]["where"]

isWhereNot(condition) == Has(WhereOf(condition), "not")

WhereBase(condition) ==
  IF isWhereNot(condition) THEN WhereOf(condition)["not"] ELSE WhereOf(condition)

getWhereType(condition) == IF Has(WhereBase(condition), "allOf") THEN "allOf" ELSE "anyOf"

getWhereConditions(condition) ==
  IF Has(WhereBase(condition), getWhereType(condition))
    THEN WhereBase(condition)[getWhereType(condition)] ELSE <<>>

\* the three handlers end with the same onUpdate: the Count with a new where
WithWhere(condition, newWhereCondition) ==
  LET base == CountBase(condition) IN
  Rewrap(isCountNot(condition),
         ("count" :> (("where" :> newWhereCondition) @@ base["count"])) @@ base)

handleWhereConditionsUpdate(condition, conditions) ==
  WithWhere(condition,
            Rewrap(isWhereNot(condition), getWhereType(condition) :> conditions))

handleToggleWhereType(condition) ==
  LET newType == IF getWhereType(condition) = "allOf" THEN "anyOf" ELSE "allOf" IN
  WithWhere(condition,
            Rewrap(isWhereNot(condition), newType :> getWhereConditions(condition)))

handleToggleWhereNot(condition) ==
  LET group == getWhereType(condition) :> getWhereConditions(condition) IN
  WithWhere(condition, IF isWhereNot(condition) THEN group ELSE [not |-> group])

-----------------------------------------------------------------------------
(* ConditionItem: a child that is a (possibly negated) group *)

ConditionItem_isNot(condition) == Has(condition, "not")

groupCondition(condition) ==
  IF ConditionItem_isNot(condition) THEN condition["not"] ELSE condition

groupType(condition) == IF Has(groupCondition(condition), "allOf") THEN "allOf" ELSE "anyOf"

ConditionItem_conditions(condition) ==
  IF Has(groupCondition(condition), groupType(condition))
    THEN groupCondition(condition)[groupType(condition)] ELSE <<>>

\* faulty variant: the NOT wrapper of the child group is not put back
ConditionItem_onUpdate_forgetsNot(condition, updatedConditions) ==
  groupType(condition) :> updatedConditions

\* the nested ConditionGroup's onUpdate: what the parent receives
ConditionItem_onUpdate(condition, updatedConditions) ==
  Rewrap(ConditionItem_isNot(condition), groupType(condition) :> updatedConditions)

\* faulty variant: the toggle of a child group always wraps
ConditionItem_onToggleNot_wraps(condition) == [not |-> condition]

ConditionItem_onToggleNot(condition) ==
  LET newGroup == groupType(condition) :> ConditionItem_conditions(condition) IN
  IF ConditionItem_isNot(condition) THEN newGroup ELSE [not |-> newGroup]

-----------------------------------------------------------------------------
(* usePolicyEditorState: the document and the root group *)

initialPolicyTemplate ==
  [properties |->
    [displayName |-> "",
     description |-> "",
     policyType  |-> "Custom",
     mode        |-> "All",
     metadata    |-> [version |-> "1.0.0", category |-> "", preview |-> FALSE],
     version     |-> "1.0.0",
     parameters  |->
       [effect |->
         [type          |-> "String",
          metadata      |-> [displayName |-> "Effect",
                             description |-> "The effect determines what happens when the policy rule is evaluated to match"],
          allowedValues |-> <<"Audit", "Deny", "Disabled">>,
          defaultValue  |-> Str("Audit")]],
     policyRule  |->
       [if   |-> [allOf |-> <<>>],
        then |-> [effect |-> "[parameters('effect')]"]]]]

IfOf(p) == p.properties.policyRule["if"]

isRootNot(p) == Has(IfOf(p), "not")

RootBase(p) == IF isRootNot(p) THEN IfOf(p)["not"] ELSE IfOf(p)

getCurrentGroupType(p) == IF Has(RootBase(p), "allOf") THEN "allOf" ELSE "anyOf"

getCurrentConditions(p) ==
  IF Has(RootBase(p), getCurrentGroupType(p))
    THEN RootBase(p)[getCurrentGroupType(p)] ELSE <<>>

\* setPolicy(prev => ({...prev, properties: {...prev.properties,
\*   policyRule: {...prev.properties.policyRule, if: newIfCondition}}}))
SetIf(prev, newIfCondition) ==
  [prev EXCEPT !.properties.policyRule["if"] = newIfCondition]

\* faulty variant: a single condition is written as the if-clause itself
handleUpdateConditions_unwraps(seen, prev, conditions) ==
  SetIf(prev, IF Len(conditions) = 1 THEN conditions[1]
              ELSE Rewrap(isRootNot(seen), getCurrentGroupType(seen) :> conditions))

\* faulty variant: the NOT wrapper of the root is not put back
handleUpdateConditions_forgetsNot(seen, prev, conditions) ==
  SetIf(prev, getCurrentGroupType(seen) :> conditions)

\* `seen` is the document of the render the handler was created in: the type
\* and the NOT wrapper come from it; `prev` is the state setPolicy updates.
handleUpdateConditions(seen, prev, conditions) ==
  SetIf(prev, Rewrap(isRootNot(seen), getCurrentGroupType(seen) :> conditions))

\* faulty variant: the root kind toggle forgets the NOT wrapper
handleToggleGroupType_dropsNot(seen, prev) ==
  LET newType == IF getCurrentGroupType(seen) = "allOf" THEN "anyOf" ELSE "allOf" IN
  SetIf(prev, newType :> getCurrentConditions(seen))

handleToggleGroupType(seen, prev) ==
  LET newType == IF getCurrentGroupType(seen) = "allOf" THEN "anyOf" ELSE "allOf" IN
  SetIf(prev, Rewrap(isRootNot(seen), newType :> getCurrentConditions(seen)))

handleToggleNot(seen, prev) ==
  LET group == getCurrentGroupType(seen) :> getCurrentConditions(seen) IN
  SetIf(prev, IF isRootNot(seen) THEN group ELSE [not |-> group])

-----------------------------------------------------------------------------
(* The rendered tree: ConditionGroup -> ConditionItem -> ConditionGroup or    *)
(* CountConditionEditor -> WhereConditionGroup -> ConditionGroup.            *)
(* A path is the sequence of steps from the root ConditionGroup to a         *)
(* ConditionGroup: [i |-> index of the child, k |-> "nested" or "where"].    *)

Step(i, k) == [i |-> i, k |-> k]

\* the editor's edit of one leaf, handed to the group's handleUpdateCondition
LeafHandler(c, e) ==
  CASE e.h = "handleNotToggle"       -> handleNotToggle(c, ~useCondition_isNot(c))
    [] e.h = "simpleFieldChange"     -> useCondition_handleFieldChange(c, e.arg)
    [] e.h = "simpleOperatorChange"  -> useCondition_handleOperatorChange(c, e.arg)
    [] e.h = "simpleValueChange"     -> useCondition_handleValueChange(c, e.arg)
    [] e.h = "countFieldChange"      -> useCountCondition_handleFieldChange(c, e.arg)
    [] e.h = "countOperatorChange"   -> useCountCondition_handleOperatorChange(c, e.arg)
    [] e.h = "countValueChange"      -> useCountCondition_handleValueChange(c, e.arg)
    [] e.h = "handleToggleCountNot"  -> handleToggleCountNot(c)
    [] e.h = "handleToggleWhereType" -> handleToggleWhereType(c)
    [] e.h = "handleToggleWhereNot"  -> handleToggleWhereNot(c)
    [] e.h = "onToggleNot"           -> ConditionItem_onToggleNot(c)

\* the handlers of one ConditionGroup (useConditionGroup, and onClearAll of
\* ConditionGroup.tsx): the conditions it hands to its onUpdate
GroupHandler(conditions, isNot, e) ==
  CASE e.op = "handleAddCondition"      -> handleAddCondition(conditions)
    [] e.op = "handleAddNestedGroup"    -> handleAddNestedGroup(conditions, isNot)
    [] e.op = "handleAddCountCondition" -> handleAddCountCondition(conditions)
    [] e.op = "handleRemoveCondition"   -> handleRemoveCondition(conditions, e.idx)
    [] e.op = "handleMoveCondition"     -> handleMoveCondition(conditions, e.idx, e.arg)
    [] e.op = "handleToggleGroupType"   -> useConditionGroup_handleToggleGroupType(conditions, e.idx)
    [] e.op = "onClearAll"              -> <<>>
    [] e.op = "leaf"                    ->
         handleUpdateCondition(conditions, e.idx, LeafHandler(conditions[e.idx + 1], e))

\* the conditions the ConditionGroup rendered with (conditions, isNot) hands to
\* its onUpdate when the ConditionGroup at `path` below it runs handler e
RECURSIVE Bubble(_, _, _, _)
Bubble(conditions, isNot, path, e) ==
  IF path = <<>> THEN GroupHandler(conditions, isNot, e)
  ELSE
    LET idx == Head(path).i
        child == conditions[idx + 1]
        updated ==
          IF Head(path).k = "nested"
            THEN ConditionItem_onUpdate(child,
                   Bubble(ConditionItem_conditions(child), ConditionItem_isNot(child),
                          Tail(path), e))
            ELSE handleWhereConditionsUpdate(child,
                   Bubble(getWhereConditions(child), isWhereNot(child), Tail(path), e))
    IN  handleUpdateCondition(conditions, idx, updated)

\* the document after the ConditionGroup at `path` runs handler e, all
\* closures being those of the render of `seen`
Edit(seen, prev, path, e) ==
  handleUpdateConditions(seen, prev,
    Bubble(getCurrentConditions(seen), isRootNot(seen), path, e))

\* the paths of the ConditionGroups rendered for `conditions`
RECURSIVE GroupPaths(_)
GroupPaths(conditions) ==
  {<<>>} \cup UNION {
    LET c == conditions[j] IN
    IF Editor(c) = "nested"
      THEN {<<Step(j - 1, "nested")>> \o q : q \in GroupPaths(ConditionItem_conditions(c))}
    ELSE IF Editor(c) = "count"
      THEN {<<Step(j - 1, "where")>> \o q : q \in GroupPaths(getWhereConditions(c))}
    ELSE {} : j \in 1..Len(conditions)}

\* the conditions and the isNot prop of the ConditionGroup at `path`
RECURSIVE PropsAt(_, _, _)
PropsAt(conditions, isNot, path) ==
  IF path = <<>> THEN [conditions |-> conditions, isNot |-> isNot]
  ELSE LET child == conditions[Head(path).i + 1] IN
       IF Head(path).k = "nested"
         THEN PropsAt(ConditionItem_conditions(child), ConditionItem_isNot(child), Tail(path))
         ELSE PropsAt(getWhereConditions(child), isWhereNot(child), Tail(path))

RootPaths(p) == GroupPaths(getCurrentConditions(p))
RootPropsAt(p, path) == PropsAt(getCurrentConditions(p), isRootNot(p), path)

\* condition nodes under a sequence of conditions (a Count counts its where-group's)
RECURSIVE Nodes(_)
Nodes(conditions) ==
  IF conditions = <<>> THEN 0
  ELSE LET c == Head(conditions) IN
       1 + (IF Editor(c) = "nested" THEN Nodes(ConditionItem_conditions(c))
            ELSE IF Editor(c) = "count" THEN Nodes(getWhereConditions(c))
            ELSE 0)
         + Nodes(Tail(conditions))

-----------------------------------------------------------------------------
(* What the user can enter *)

\* options of OperatorSelect (AVAILABLE_OPERATORS) the model selects
OperatorInputs == {"in", "equals"}
\* options of CountOperatorSelect
COUNT_OPERATORS == {"greater", "less", "equals"}
\* the options of CountOperatorSelect the model selects
CountOperatorInputs == {"less"}
\* a field picked from the field dropdown
FieldInputs == {"type"}
\* texts typed into a Simple's value input
ValueInputs == {"[\"a\"]"}
\* an array field picked in CountFieldSelect
CountFieldInputs == {"ips[*]"}
\* texts typed into a Count's threshold input
ThresholdInputs == {"5", "abc", "Infinity"}

-----------------------------------------------------------------------------
(* State after construction *)

NoEdit == [op |-> "none", fresh |-> TRUE]

\* useParameters: the parameter form before anything is typed, and after a submit
emptyParameterForm ==
  [name |-> "", type |-> "string", description |-> "", displayName |-> "",
   allowedValues |-> <<>>, defaultValue |-> ""]

Init ==
  /\ policy = initialPolicyTemplate
  /\ selectedEffect = "audit"
  /\ activeTab = "basicInfo"
  /\ parameterForm = emptyParameterForm
  /\ editingParameter = Null
  /\ nameError = ""
  /\ allowedValuesError = ""
  /\ defaultValueError = ""
  /\ timers = {}
  /\ last = NoEdit

-----------------------------------------------------------------------------
(* Tabs: TabNavigation *)

Tabs == {"basicInfo", "conditions", "parameters", "details"}

\* faulty variant: the Details button is rendered for every effect
setActiveTab_unguarded(tab) ==
  /\ tab # activeTab
  /\ activeTab' = tab
  /\ UNCHANGED <<policy, selectedEffect, parameterForm, editingParameter,
                 nameError, allowedValuesError, defaultValueError, timers, last>>

\* the Details button is rendered only while the effect is modify
setActiveTab(tab) ==
  /\ tab # activeTab
  /\ (tab = "details") => (selectedEffect = "modify")
  /\ activeTab' = tab
  /\ UNCHANGED <<policy, selectedEffect, parameterForm, editingParameter,
                 nameError, allowedValuesError, defaultValueError, timers, last>>

SwitchTab == \E tab \in Tabs : setActiveTab(tab)

OpenConditionsTab == setActiveTab("conditions")

-----------------------------------------------------------------------------
(* Conditions tab: one action per handler, run by the ConditionGroup at a path *)

GroupEdit(op, idx, arg) == [op |-> op, idx |-> idx, h |-> "", arg |-> arg]
LeafEdit(h, idx, arg) == [op |-> "leaf", idx |-> idx, h |-> h, arg |-> arg]

\* A pending blur timer t updates the state of the ConditionEditor it was set
\* in.  The children of a group are keyed by their index, so that editor lives
\* while the group at t.path is rendered and its child t.idx is a Simple; the
\* update of an unmounted editor is dropped.
Mounted(t, p) ==
  /\ t.path \in RootPaths(p)
  /\ t.idx < Len(RootPropsAt(p, t.path).conditions)
  /\ Editor(RootPropsAt(p, t.path).conditions[t.idx + 1]) = "simple"

\* a handler of the current render replaces the document
Commit(newPolicy) ==
  /\ activeTab = "conditions"
  /\ policy' = newPolicy
  /\ timers' = {t \in timers : Mounted(t, newPolicy)}
  /\ UNCHANGED <<selectedEffect, activeTab, parameterForm, editingParameter,
                 nameError, allowedValuesError, defaultValueError, last>>

AtGroup(path, e) == Commit(Edit(policy, policy, path, e))

Room == Nodes(getCurrentConditions(policy)) < MaxNodes

ChildIndices(path) == 0..(Len(RootPropsAt(policy, path).conditions) - 1)
ChildAt(path, idx) == RootPropsAt(policy, path).conditions[idx + 1]

AddSimple ==
  \E path \in RootPaths(policy) :
    Room /\ AtGroup(path, GroupEdit("handleAddCondition", 0, ""))

AddNestedGroup ==
  \E path \in RootPaths(policy) :
    Room /\ Len(path) < MaxDepth
      /\ AtGroup(path, GroupEdit("handleAddNestedGroup", 0, ""))

\* the where-group of the new Count is rendered one level below `path`
AddCount ==
  \E path \in RootPaths(policy) :
    Room /\ Len(path) < MaxDepth
      /\ AtGroup(path, GroupEdit("handleAddCountCondition", 0, ""))

RemoveChild ==
  \E path \in RootPaths(policy) : \E idx \in ChildIndices(path) :
    AtGroup(path, GroupEdit("handleRemoveCondition", idx, ""))

MoveChild ==
  \E path \in RootPaths(policy) : \E idx \in ChildIndices(path) :
    \E direction \in {"up", "down"} :
      AtGroup(path, GroupEdit("handleMoveCondition", idx, direction))

\* the toggle button in the header of a child group
ToggleChildGroupType ==
  \E path \in RootPaths(policy) : \E idx \in ChildIndices(path) :
    /\ Editor(ChildAt(path, idx)) = "nested"
    /\ AtGroup(path, GroupEdit("handleToggleGroupType", idx, ""))

\* ConditionGroup.tsx shows Clear All while its path prop is empty: the root
\* group and every where-group (WhereConditionGroup passes path={[]})
showClearAll(path) == IF path = <<>> THEN TRUE ELSE path[Len(path)].k = "where"

ClearAll ==
  \E path \in RootPaths(policy) :
    /\ showClearAll(path)
    /\ AtGroup(path, GroupEdit("onClearAll", 0, ""))

LeafAt(path, idx, editor, e) ==
  /\ Editor(ChildAt(path, idx)) = editor
  /\ AtGroup(path, e)

\* NotToggle of a ConditionEditor: onChange(e.target.checked), checked={isNot}
SimpleNotToggle ==
  \E path \in RootPaths(policy) : \E idx \in ChildIndices(path) :
    LeafAt(path, idx, "simple", LeafEdit("handleNotToggle", idx, ""))

SimpleFieldChange ==
  \E path \in RootPaths(policy) : \E idx \in ChildIndices(path) :
    \E field \in FieldInputs :
      LeafAt(path, idx, "simple", LeafEdit("simpleFieldChange", idx, field))

SimpleOperatorChange ==
  \E path \in RootPaths(policy) : \E idx \in ChildIndices(path) :
    \E newOperator \in OperatorInputs :
      LeafAt(path, idx, "simple", LeafEdit("simpleOperatorChange", idx, newOperator))

SimpleValueChange ==
  \E path \in RootPaths(policy) : \E idx \in ChildIndices(path) :
    \E newValue \in ValueInputs :
      LeafAt(path, idx, "simple", LeafEdit("simpleValueChange", idx, newValue))

CountFieldChange ==
  \E path \in RootPaths(policy) : \E idx \in ChildIndices(path) :
    \E field \in CountFieldInputs :
      LeafAt(path, idx, "count", LeafEdit("countFieldChange", idx, field))

CountOperatorChange ==
  \E path \in RootPaths(policy) : \E idx \in ChildIndices(path) :
    \E operator \in CountOperatorInputs :
      LeafAt(path, idx, "count", LeafEdit("countOperatorChange", idx, operator))

CountValueChange ==
  \E path \in RootPaths(policy) : \E idx \in ChildIndices(path) :
    \E value \in ThresholdInputs :
      LeafAt(path, idx, "count", LeafEdit("countValueChange", idx, value))

CountNotToggle ==
  \E path \in RootPaths(policy) : \E idx \in ChildIndices(path) :
    LeafAt(path, idx, "count", LeafEdit("handleToggleCountNot", idx, ""))

WhereTypeToggle ==
  \E path \in RootPaths(policy) : \E idx \in ChildIndices(path) :
    LeafAt(path, idx, "count", LeafEdit("handleToggleWhereType", idx, ""))

WhereNotToggle ==
  \E path \in RootPaths(policy) : \E idx \in ChildIndices(path) :
    LeafAt(path, idx, "count", LeafEdit("handleToggleWhereNot", idx, ""))

ChildGroupNotToggle ==
  \E path \in RootPaths(policy) : \E idx \in ChildIndices(path) :
    LeafAt(path, idx, "nested", LeafEdit("onToggleNot", idx, ""))

\* GroupHeader of the root group in ConditionsTab
RootToggleGroupType ==
  \E newPolicy \in {handleToggleGroupType(policy, policy)} : Commit(newPolicy)

RootToggleNot ==
  \E newPolicy \in {handleToggleNot(policy, policy)} : Commit(newPolicy)

\* The Conditions tab: every handler that shapes the tree (adds, removes,
\* moves, Clear All, every NOT toggle and every allOf/anyOf toggle).  The
\* handlers that write a leaf's field, operator, value, comparator or threshold
\* are applied to every reachable document by the properties below.
ConditionsNext ==
  \/ OpenConditionsTab
  \/ AddSimple \/ AddNestedGroup \/ AddCount
  \/ RemoveChild \/ MoveChild \/ ToggleChildGroupType \/ ClearAll
  \/ SimpleNotToggle \/ CountNotToggle
  \/ WhereTypeToggle \/ WhereNotToggle \/ ChildGroupNotToggle
  \/ RootToggleGroupType \/ RootToggleNot

SpecConditions == Init /\ [][ConditionsNext]_vars

-----------------------------------------------------------------------------
(* The field input of a ConditionEditor: SearchableInput and useDropdown.     *)
(* Focus opens the dropdown, typing sets searchTerm, and blur runs           *)
(* handleBlur(cb): 200 ms later the dropdown state's updater calls           *)
(* cb(searchTerm).  cb is the arrow function of the render the input was     *)
(* blurred in: its handleFieldChange, and every onUpdate up to               *)
(* handleUpdateConditions, close over the conditions of that render.         *)

\* blur timers pending at the same time
MaxTimers == 1

\* the user focuses the field input of a Simple, types a term and leaves it
FieldBlur ==
  \E path \in RootPaths(policy) : \E idx \in ChildIndices(path) :
    \E searchTerm \in FieldInputs :
      /\ activeTab = "conditions"
      /\ Editor(ChildAt(path, idx)) = "simple"
      /\ Cardinality(timers) < MaxTimers
      /\ timers' = timers \cup
           {[path |-> path, idx |-> idx, searchTerm |-> searchTerm, seen |-> policy]}
      /\ UNCHANGED <<policy, selectedEffect, activeTab, parameterForm, editingParameter,
                     nameError, allowedValuesError, defaultValueError, last>>

\* the timer of handleBlur fires: prev.searchTerm is set, so the updater calls
\* onValueChange(prev.searchTerm), the callback captured at the blur
BlurTimerFires ==
  \E t \in timers :
    LET e == LeafEdit("simpleFieldChange", t.idx, t.searchTerm)
        newPolicy == Edit(t.seen, policy, t.path, e)
    IN  /\ policy' = newPolicy
        /\ timers' = {u \in timers \ {t} : Mounted(u, newPolicy)}
        /\ last' = [op |-> "handleBlur",
                    fresh |-> (newPolicy = Edit(policy, policy, t.path, e))]
        /\ UNCHANGED <<selectedEffect, activeTab, parameterForm, editingParameter,
                       nameError, allowedValuesError, defaultValueError>>

\* immediate edits of the Conditions tab interleaved with deferred commits
BlurNext ==
  \/ OpenConditionsTab
  \/ AddSimple \/ AddNestedGroup \/ RemoveChild \/ MoveChild
  \/ SimpleNotToggle \/ RootToggleNot
  \/ FieldBlur
  \/ BlurTimerFires

SpecBlur == Init /\ [][BlurNext]_vars

-----------------------------------------------------------------------------
(* Basic Info tab: the effect <select> *)

EmptyObject == [x \in {} |-> x]

\* value.charAt(0).toUpperCase() + value.slice(1).toLowerCase()
Capitalize(value) ==
  CASE value = "audit"    -> "Audit"
    [] value = "deny"     -> "Deny"
    [] value = "modify"   -> "Modify"
    [] value = "disabled" -> "Disabled"

\* faulty variant: the allowed values do not follow the selected effect
handleEffectChange_sameValues(prev, value) ==
  LET parameters == prev.properties.parameters
      effect == IF Has(parameters, "effect") THEN parameters.effect ELSE EmptyObject
      newEffect ==
        ("allowedValues" :> <<"Audit", "Deny", "Disabled">>)
          @@ ("defaultValue" :> Str(Capitalize(value))) @@ effect
      then ==
        IF value = "modify"
          THEN [effect  |-> "[parameters('effect')]",
                details |-> [roleDefinitionIds |-> <<>>,
                             operations |-> <<[operation |-> "add", field |-> "",
                                               value |-> ""]>>]]
          ELSE [effect |-> "[parameters('effect')]"]
  IN  [prev EXCEPT !.properties.parameters = ("effect" :> newEffect) @@ parameters,
                   !.properties.policyRule = ("then" :> then) @@ @]

\* faulty variant: selecting modify keeps a details block that is there
handleEffectChange_keepsDetails(prev, value) ==
  LET parameters == prev.properties.parameters
      effect == IF Has(parameters, "effect") THEN parameters.effect ELSE EmptyObject
      newEffect ==
        ("allowedValues" :> (IF value = "modify" THEN <<"Modify", "Disabled">>
                             ELSE <<"Audit", "Deny", "Disabled">>))
          @@ ("defaultValue" :> Str(Capitalize(value))) @@ effect
      then ==
        IF value = "modify"
          THEN IF Has(prev.properties.policyRule.then, "details")
                 THEN prev.properties.policyRule.then
                 ELSE [effect  |-> "[parameters('effect')]",
                       details |-> [roleDefinitionIds |-> <<>>,
                                    operations |-> <<[operation |-> "add", field |-> "",
                                                      value |-> ""]>>]]
          ELSE [effect |-> "[parameters('effect')]"]
  IN  [prev EXCEPT !.properties.parameters = ("effect" :> newEffect) @@ parameters,
                   !.properties.policyRule = ("then" :> then) @@ @]

handleEffectChange(prev, value) ==
  LET parameters == prev.properties.parameters
      effect == IF Has(parameters, "effect") THEN parameters.effect ELSE EmptyObject
      newEffect ==
        ("allowedValues" :> (IF value = "modify" THEN <<"Modify", "Disabled">>
                             ELSE <<"Audit", "Deny", "Disabled">>))
          @@ ("defaultValue" :> Str(Capitalize(value))) @@ effect
      then ==
        IF value = "modify"
          THEN [effect  |-> "[parameters('effect')]",
                details |-> [roleDefinitionIds |-> <<>>,
                             operations |-> <<[operation |-> "add", field |-> "",
                                               value |-> ""]>>]]
          ELSE [effect |-> "[parameters('effect')]"]
  IN  [prev EXCEPT !.properties.parameters = ("effect" :> newEffect) @@ parameters,
                   !.properties.policyRule = ("then" :> then) @@ @]

\* options of the effect <select> the model picks
EffectInputs == {"deny", "modify"}

EffectChange ==
  \E value \in EffectInputs :
    /\ activeTab = "basicInfo"
    /\ value # selectedEffect
    /\ selectedEffect' = value
    /\ policy' = handleEffectChange(policy, value)
    /\ UNCHANGED <<activeTab, parameterForm, editingParameter, nameError,
                   allowedValuesError, defaultValueError, timers, last>>

-----------------------------------------------------------------------------
(* Details tab: DetailsForm and handleUpdateDetails *)

handleUpdateDetails(prev, details) ==
  [prev EXCEPT !.properties.policyRule =
     ("then" :> [effect |-> "[parameters('effect')]", details |-> details]) @@ @]

\* DetailsTab: policy.properties.policyRule.then.details?.x || dflt
DetailsProp(p, x, dflt) ==
  LET then == p.properties.policyRule.then IN
  IF Has(then, "details") /\ Has(then.details, x) THEN then.details[x] ELSE dflt

\* DetailsForm.handleUpdateEffect: newEffect is "" for `undefined`
handleUpdateEffect(p, newEffect) ==
  (IF newEffect # "" THEN "conflictEffect" :> newEffect ELSE EmptyObject)
    @@ [roleDefinitionIds |-> DetailsProp(p, "roleDefinitionIds", <<>>),
        operations        |-> DetailsProp(p, "operations", <<>>)]

\* DetailsForm.handleUpdateRoles
handleUpdateRoles(p, newRoleIds) ==
  (IF DetailsProp(p, "conflictEffect", "") # ""
     THEN "conflictEffect" :> DetailsProp(p, "conflictEffect", "") ELSE EmptyObject)
    @@ [roleDefinitionIds |-> newRoleIds,
        operations        |-> DetailsProp(p, "operations", <<>>)]

\* options of the conflict effect <select> the model picks
ConflictEffectInputs == {"", "audit"}

UpdateDetails ==
  \E newEffect \in ConflictEffectInputs :
    /\ activeTab = "details" /\ selectedEffect = "modify"
    /\ newEffect # DetailsProp(policy, "conflictEffect", "")
    /\ policy' = handleUpdateDetails(policy, handleUpdateEffect(policy, newEffect))
    /\ UNCHANGED <<selectedEffect, activeTab, parameterForm, editingParameter,
                   nameError, allowedValuesError, defaultValueError, timers, last>>

-----------------------------------------------------------------------------
(* Details tab: OperationsList, whose field input commits its search term    *)
(* from a timer set at the blur                                              *)

\* OperationsList.handleOperationChange(index, 'field', value)
handleOperationChange(operations, index, value) ==
  [j \in 1..Len(operations) |->
     IF j = index + 1 THEN [operations[j] EXCEPT !.field = value] ELSE operations[j]]

\* DetailsForm.handleUpdateOperations, with the props of the render of p
handleUpdateOperations(p, newOperations) ==
  (IF DetailsProp(p, "conflictEffect", "") # ""
     THEN "conflictEffect" :> DetailsProp(p, "conflictEffect", "") ELSE EmptyObject)
    @@ [roleDefinitionIds |-> DetailsProp(p, "roleDefinitionIds", <<>>),
        operations        |-> newOperations]

\* OperationsList.handleAddOperation
handleAddOperation(operations) ==
  operations \o <<[operation |-> "", field |-> "", value |-> ""]>>

\* operations of the details block
MaxOperations == 2

\* a field picked or typed for an operation
OperationFieldInputs == {"tags"}

DetailsFormShown == activeTab = "details" /\ selectedEffect = "modify"

\* the Add Operation button
AddOperation ==
  /\ DetailsFormShown
  /\ Len(DetailsProp(policy, "operations", <<>>)) < MaxOperations
  /\ policy' = handleUpdateDetails(policy, handleUpdateOperations(policy,
                  handleAddOperation(DetailsProp(policy, "operations", <<>>))))
  /\ UNCHANGED <<selectedEffect, activeTab, parameterForm, editingParameter,
                 nameError, allowedValuesError, defaultValueError, timers, last>>

\* the field input of an operation while its dropdown is closed
OperationFieldChange ==
  \E index \in 0..(Len(DetailsProp(policy, "operations", <<>>)) - 1) :
    \E value \in OperationFieldInputs :
      /\ DetailsFormShown
      /\ policy' = handleUpdateDetails(policy, handleUpdateOperations(policy,
                      handleOperationChange(DetailsProp(policy, "operations", <<>>),
                                            index, value)))
      /\ UNCHANGED <<selectedEffect, activeTab, parameterForm, editingParameter,
                     nameError, allowedValuesError, defaultValueError, timers, last>>

\* the user opens the dropdown of an operation's field input, types a search
\* term and leaves the input: onBlur sets a timer
OperationFieldBlur ==
  \E index \in 0..(Len(DetailsProp(policy, "operations", <<>>)) - 1) :
    \E searchTerm \in OperationFieldInputs :
      /\ DetailsFormShown
      /\ Cardinality(timers) < MaxTimers
      /\ timers' = timers \cup
           {[index |-> index, searchTerm |-> searchTerm, seen |-> policy]}
      /\ UNCHANGED <<policy, selectedEffect, activeTab, parameterForm, editingParameter,
                     nameError, allowedValuesError, defaultValueError, last>>

\* the timer fires: handleOperationChange of the render of the blur runs,
\* whether or not the Details tab is still shown
OperationTimerFires ==
  \E t \in timers :
    /\ policy' = handleUpdateDetails(policy, handleUpdateOperations(t.seen,
                    handleOperationChange(DetailsProp(t.seen, "operations", <<>>),
                                          t.index, t.searchTerm)))
    /\ timers' = timers \ {t}
    /\ UNCHANGED <<selectedEffect, activeTab, parameterForm, editingParameter,
                   nameError, allowedValuesError, defaultValueError, last>>

DetailsNext ==
  \/ SwitchTab
  \/ EffectChange
  \/ UpdateDetails
  \/ AddOperation
  \/ OperationFieldChange
  \/ OperationFieldBlur
  \/ OperationTimerFires

SpecDetails == Init /\ [][DetailsNext]_vars

-----------------------------------------------------------------------------
(* Parameters tab: useParameters and the parameter handlers of                *)
(* usePolicyEditorState                                                      *)

\* name.trim() over the names the model types
Trim(name) == IF name = " " THEN "" ELSE name
IncludesSpace(name) == name \in {" ", "a b"}

\* faulty variant: a name with a space passes
validateParameterName_allowsSpaces(name) ==
  IF Trim(name) = "" THEN "Name is required" ELSE ""

\* the text of nameError after validateParameterName(name); "" is valid
validateParameterName(name) ==
  IF Trim(name) = "" THEN "Name is required"
  ELSE IF IncludesSpace(name) THEN "Name cannot contain spaces"
  ELSE ""

isValidJSONArray(str) == JSONParse(str).ok /\ isArray(JSONParse(str).val)

\* JSON.stringify of an array of strings, String(v || '') of a default value
JSONStringify(a) ==
  CASE a = <<"a">> -> "[\"a\"]"
    [] a = <<>>    -> "[]"
    [] OTHER       -> "[...]"
StringOf(v) == IF Has(v, "str") THEN v.str ELSE ""
ToLowerCase(type) == IF type = "String" THEN "string" ELSE type

\* parameterForm.allowedValues[0], "" when there is none (both are falsy)
FirstAllowed(form) == IF form.allowedValues = <<>> THEN "" ELSE form.allowedValues[1]

\* validateForm: which error it sets, "" for none, and whether it passes
validateForm(form) ==
  IF validateParameterName(form.name) # ""
    THEN [ok |-> FALSE, nameError |-> validateParameterName(form.name),
          allowedValuesError |-> "keep", defaultValueError |-> "keep"]
  ELSE IF FirstAllowed(form) # "" /\ ~isValidJSONArray(FirstAllowed(form))
    THEN [ok |-> FALSE, nameError |-> "",
          allowedValuesError |-> "Must be a valid JSON array", defaultValueError |-> "keep"]
  ELSE IF form.type = "object" /\ form.defaultValue # "" /\ ~JSONParse(form.defaultValue).ok
    THEN [ok |-> FALSE, nameError |-> "",
          allowedValuesError |-> "keep", defaultValueError |-> "Must be a valid JSON object"]
  ELSE [ok |-> TRUE, nameError |-> "",
        allowedValuesError |-> "keep", defaultValueError |-> "keep"]

\* the parameter object handleAddParameter builds; [ok |-> FALSE] when a
\* JSON.parse in it throws
BuildParameter(form) ==
  LET dv == form.defaultValue
      defaultValue ==
        IF form.type = "object"
          THEN IF dv # "" THEN JSONParse(dv) ELSE [ok |-> TRUE, val |-> [obj |-> <<>>]]
        ELSE IF form.type = "array" THEN JSONParse(dv)
        ELSE IF form.type \in {"integer", "float"} THEN [ok |-> TRUE, val |-> ToNumber(dv)]
        ELSE [ok |-> TRUE, val |-> Str(dv)]
  IN  IF FirstAllowed(form) # "" /\ ~JSONParse(FirstAllowed(form)).ok THEN [ok |-> FALSE]
      ELSE IF ~defaultValue.ok THEN [ok |-> FALSE]
      ELSE [ok |-> TRUE,
            parameter |->
              (IF FirstAllowed(form) # ""
                 THEN "allowedValues" :> JSONParse(FirstAllowed(form)).val.arr
                 ELSE EmptyObject)
              @@ [type |-> form.type,
                  metadata |-> [displayName |-> form.displayName,
                                description |-> form.description],
                  defaultValue |-> defaultValue.val]]

handleUpdateParameter(prev, name, parameter) ==
  [prev EXCEPT !.properties.parameters = (name :> parameter) @@ @]

\* faulty variant: no guard for the reserved name
handleRemoveParameter_unguarded(prev, name) ==
  [prev EXCEPT !.properties.parameters = Omit(@, name)]

handleRemoveParameter(prev, name) ==
  IF name = "effect" THEN prev
  ELSE [prev EXCEPT !.properties.parameters = Omit(@, name)]

\* the form and editingParameter after handleEditParameter(name, param)
handleEditParameter(name, param, form, editing) ==
  IF name = "effect" THEN [parameterForm |-> form, editingParameter |-> editing]
  ELSE [parameterForm |->
          [name |-> name,
           type |-> ToLowerCase(param.type),
           description |-> param.metadata.description,
           displayName |-> param.metadata.displayName,
           allowedValues |-> IF Has(param, "allowedValues")
                               THEN <<JSONStringify(param.allowedValues)>> ELSE <<>>,
           defaultValue |-> IF ToLowerCase(param.type) \in {"array", "object"}
                              THEN JSONStringify(param.defaultValue.arr)
                              ELSE StringOf(param.defaultValue)],
        editingParameter |-> Str(name)]

\* what the user types into the form: one input changes at a time
NameInputs == {"effect", "tags"}
AllowedValuesInputs == {"[\"a\"]"}
FormUpdates ==
  {[name |-> n] : n \in NameInputs}
    \cup {[allowedValues |-> <<a>>] : a \in AllowedValuesInputs}

handleParameterFormChange ==
  \E updates \in FormUpdates :
    /\ activeTab = "parameters"
    /\ updates @@ parameterForm # parameterForm
    /\ parameterForm' = updates @@ parameterForm
    /\ nameError' = ""
    /\ allowedValuesError' = ""
    /\ defaultValueError' = ""
    /\ UNCHANGED <<policy, selectedEffect, activeTab, editingParameter, timers, last>>

\* the hook's state after handleAddParameter(e, handleUpdateParameter) ran on
\* the state st: validateForm, then the parameter is built and handed over
AfterSubmit(st) ==
  LET v == validateForm(st.parameterForm)
      built == BuildParameter(st.parameterForm)
      Keep(new, old) == IF new = "keep" THEN old ELSE new
  IN  IF ~v.ok
        THEN [st EXCEPT !.nameError = v.nameError,
                        !.allowedValuesError = Keep(v.allowedValuesError, @),
                        !.defaultValueError = Keep(v.defaultValueError, @)]
      ELSE IF ~built.ok
        THEN [st EXCEPT !.nameError = "", !.defaultValueError = "Invalid JSON format"]
      ELSE [policy |-> handleUpdateParameter(st.policy, st.parameterForm.name,
                                             built.parameter),
            parameterForm |-> emptyParameterForm,
            editingParameter |-> Null,
            nameError |-> "",
            allowedValuesError |-> "",
            defaultValueError |-> ""]

\* the state the parameter form works on
FormState ==
  [policy |-> policy, parameterForm |-> parameterForm,
   editingParameter |-> editingParameter, nameError |-> nameError,
   allowedValuesError |-> allowedValuesError, defaultValueError |-> defaultValueError]

\* the form's submit: handleAddParameter(e, handleUpdateParameter)
handleAddParameter ==
  LET r == AfterSubmit(FormState) IN
  /\ activeTab = "parameters"
  /\ policy' = r.policy
  /\ parameterForm' = r.parameterForm
  /\ editingParameter' = r.editingParameter
  /\ nameError' = r.nameError
  /\ allowedValuesError' = r.allowedValuesError
  /\ defaultValueError' = r.defaultValueError
  /\ UNCHANGED <<selectedEffect, activeTab, timers, last>>

\* the edit and remove buttons are rendered for every name but 'effect'
EditParameter ==
  \E name \in DOMAIN policy.properties.parameters \ {"effect"} :
    LET r == handleEditParameter(name, policy.properties.parameters[name],
                                 parameterForm, editingParameter) IN
    /\ activeTab = "parameters"
    /\ parameterForm' = r.parameterForm
    /\ editingParameter' = r.editingParameter
    /\ UNCHANGED <<policy, selectedEffect, activeTab, nameError, allowedValuesError,
                   defaultValueError, timers, last>>

RemoveParameter ==
  \E name \in DOMAIN policy.properties.parameters \ {"effect"} :
    /\ activeTab = "parameters"
    /\ policy' = handleRemoveParameter(policy, name)
    /\ UNCHANGED <<selectedEffect, activeTab, parameterForm, editingParameter,
                   nameError, allowedValuesError, defaultValueError, timers, last>>

\* The form operations outside the condition tree, with the root NOT toggle
\* standing for the edits of the Conditions tab.
ParametersNext ==
  \/ SwitchTab
  \/ EffectChange
  \/ UpdateDetails
  \/ handleParameterFormChange
  \/ handleAddParameter
  \/ EditParameter
  \/ RemoveParameter
  \/ RootToggleNot

SpecParameters == Init /\ [][ParametersNext]_vars

-----------------------------------------------------------------------------
(* Parameters tab, the form alone: what the user can type into it, valid or  *)
(* not, and submit                                                           *)

\* texts that are no JSON, and texts that are no JSON array
NotJSONTexts == {"{", "abc"}
NotJSONArrayTexts == {"abc", "{", "{}", "5"}

\* the type <select> clears the default value and the allowed values
FormTexts ==
  {[name |-> n] : n \in {" ", "a b", "tags"}}
    \cup {[type |-> t, defaultValue |-> "", allowedValues |-> <<>>] :
            t \in {"string", "object", "array"}}
    \cup {[allowedValues |-> <<a>>] : a \in {"abc", "[\"a\"]"}}
    \cup {[defaultValue |-> d] : d \in {"{", "[]"}}

OpenParametersTab == setActiveTab("parameters")

TypeIntoForm ==
  \E updates \in FormTexts :
    /\ activeTab = "parameters"
    /\ parameterForm' = updates @@ parameterForm
    /\ nameError' = ""
    /\ allowedValuesError' = ""
    /\ defaultValueError' = ""
    /\ UNCHANGED <<policy, selectedEffect, activeTab, editingParameter, timers, last>>

FormNext ==
  \/ OpenParametersTab
  \/ TypeIntoForm
  \/ handleAddParameter
  \/ RemoveParameter

SpecForm == Init /\ [][FormNext]_vars

-----------------------------------------------------------------------------
(* Conditions tab, the leaf editors: adding leaves and editing their data *)

LeavesNext ==
  \/ OpenConditionsTab
  \/ AddSimple
  \/ AddCount
  \/ SimpleNotToggle
  \/ SimpleFieldChange
  \/ SimpleOperatorChange
  \/ SimpleValueChange
  \/ CountNotToggle
  \/ CountFieldChange
  \/ CountOperatorChange
  \/ CountValueChange

SpecLeaves == Init /\ [][LeavesNext]_vars

-----------------------------------------------------------------------------
(* JSON preview: handleEditorChange, the onChange of the preview editor *)

\* JSON.stringify of a value: a number that is not finite is written as null
SerializeValue(v) == IF v = Infinity \/ Has(v, "nan") THEN Null ELSE v

\* the keys of o that JSON.stringify writes: a key whose value is undefined
\* is left out (`plain` are the keys that hold a string or an object)
WrittenKeys(o, plain) == plain \cup {k \in DOMAIN o \ plain : o[k] # Undefined}

\* JSON.stringify of a condition; an undefined element of an array is
\* written as null
RECURSIVE SerializeCondition(_)
SerializeCondition(c) ==
  IF Has(c, "not") THEN [not |-> SerializeCondition(c["not"])]
  ELSE IF Has(c, "count") THEN
    [k \in WrittenKeys(c, {"count"}) |->
       IF k = "count"
         THEN [field |-> c.count.field, where |-> SerializeCondition(c.count.where)]
         ELSE SerializeValue(c[k])]
  ELSE IF Has(c, "allOf") \/ Has(c, "anyOf") THEN
    [k \in DOMAIN c |->
       [j \in 1..Len(c[k]) |->
          IF c[k][j] = Undefined THEN Null ELSE SerializeCondition(c[k][j])]]
  ELSE
    [k \in WrittenKeys(c, {"field"}) |->
       IF k = "field" THEN c.field ELSE SerializeValue(c[k])]

SerializeParameter(param) ==
  [k \in WrittenKeys(param, DOMAIN param \ {"defaultValue"}) |->
     IF k = "defaultValue" THEN SerializeValue(param[k]) ELSE param[k]]

\* what JSON.stringify(policy, null, 2) writes of the document
SerializeDocument(p) ==
  LET parameters == p.properties.parameters IN
  [p EXCEPT !.properties.policyRule["if"] = SerializeCondition(IfOf(p)),
            !.properties.parameters =
               [n \in DOMAIN parameters |-> SerializeParameter(parameters[n])]]

\* A text of the editor: [chars |-> s] is the text s, [json |-> d] is the
\* text that JSON.stringify wrote for a document, held as what it says.
Chars(s) == [chars |-> s]
JSONStringifyDocument(p) == [json |-> SerializeDocument(p)]

\* the text the preview shows for the initial template
templateText == JSONStringifyDocument(initialPolicyTemplate)

\* JSON.parse of an editor text
ParseDocument(value) ==
  IF Has(value, "json") THEN [ok |-> TRUE, val |-> value.json]
  ELSE JSONParse(value.chars)

\* faulty variant: a text that does not parse resets the document
handleEditorChange_resets(prev, value) ==
  IF value = Chars("") THEN prev
  ELSE IF ParseDocument(value).ok THEN ParseDocument(value).val
  ELSE initialPolicyTemplate

\* faulty variant: the parsed value is merged into the document
handleEditorChange_merges(prev, value) ==
  IF value = Chars("") THEN prev
  ELSE IF ParseDocument(value).ok THEN ParseDocument(value).val @@ prev
  ELSE prev

\* the document after handleEditorChange(value); the empty text stands for
\* '' and for undefined
handleEditorChange(prev, value) ==
  IF value = Chars("") THEN prev
  ELSE IF ParseDocument(value).ok THEN ParseDocument(value).val
  ELSE prev

\* texts handed to the handler: nothing, two texts cut before their end, and
\* the text of the initial template
EditorTexts == {Chars(""), Chars("{"), Chars("{\"properties\":"), templateText}

\* what the handler leaves behind besides the document: console.warn on a
\* SyntaxError
EditorOutcome(value) ==
  IF value = Chars("") THEN last
  ELSE [op |-> IF ParseDocument(value).ok THEN "handleEditorChange"
               ELSE "handleEditorChange: Invalid JSON",
        fresh |-> TRUE]

EditorChange ==
  \E value \in EditorTexts :
    LET newPolicy == handleEditorChange(policy, value) IN
    /\ policy' = newPolicy
    /\ timers' = {t \in timers : Mounted(t, newPolicy)}
    /\ last' = EditorOutcome(value)
    /\ UNCHANGED <<selectedEffect, activeTab, parameterForm, editingParameter,
                   nameError, allowedValuesError, defaultValueError>>

EditorNext ==
  \/ SwitchTab
  \/ EffectChange
  \/ AddSimple
  \/ AddNestedGroup
  \/ RootToggleNot
  \/ EditorChange

SpecEditor == Init /\ [][EditorNext]_vars

-----------------------------------------------------------------------------
(* Observers of a document, written from the JSON shapes alone *)

Negated(c) == "not" \in DOMAIN c
Body(c) == IF Negated(c) THEN c["not"] ELSE c
Toggled(c) == IF Negated(c) THEN c["not"] ELSE [not |-> c]

KindOf(g) == CHOOSE k \in {"allOf", "anyOf"} : k \in DOMAIN Body(g)
ChildrenOf(g) == Body(g)[KindOf(g)]
OtherKind(k) == IF k = "allOf" THEN "anyOf" ELSE "allOf"
Flipped(g) ==
  LET b == OtherKind(KindOf(g)) :> ChildrenOf(g) IN
  IF Negated(g) THEN [not |-> b] ELSE b

\* the where-group of a (possibly negated) Count, and the Count with another one
WhereGroupOf(c) == Body(c).count.where
ReplaceWhere(c, w) ==
  IF Negated(c) THEN [not |-> [c["not"] EXCEPT !.count.where = w]]
  ELSE [c EXCEPT !.count.where = w]

\* the children of the group rendered at `path` of document p
CondsAt(p, path) == RootPropsAt(p, path).conditions

\* the edits of one leaf that write its data: a Simple's field, operator and
\* value, a Count's field, comparator and threshold
DataEdits(c, idx) ==
  IF Editor(c) = "simple" THEN
       {LeafEdit("simpleFieldChange", idx, f) : f \in FieldInputs}
         \cup {LeafEdit("simpleOperatorChange", idx, o) : o \in OperatorInputs}
         \cup {LeafEdit("simpleValueChange", idx, v) : v \in ValueInputs}
  ELSE IF Editor(c) = "count" THEN
       {LeafEdit("countFieldChange", idx, f) : f \in CountFieldInputs}
         \cup {LeafEdit("countOperatorChange", idx, o) : o \in CountOperatorInputs}
         \cup {LeafEdit("countValueChange", idx, v) : v \in ThresholdInputs}
  ELSE {}

\* a leaf as it is and after one or two edits of its data
Variants(c) ==
  LET one == {c} \cup {LeafHandler(c, e) : e \in DataEdits(c, 0)} IN
  one \cup UNION {{LeafHandler(d, e) : e \in DataEdits(d, 0)} : d \in one}

\* the document as it is and after one edit of the data of one of its leaves
DataEdited(p) ==
  {p} \cup UNION {UNION {
      {Edit(p, p, path, e) : e \in DataEdits(CondsAt(p, path)[j], j - 1)}
        : j \in 1..Len(CondsAt(p, path))} : path \in RootPaths(p)}

\* the positions of the children of every rendered group
Positions == {<<path, idx>> : path \in RootPaths(policy), idx \in 0..(MaxNodes - 1)}
ChildPositions == {pos \in Positions : pos[2] < Len(CondsAt(policy, pos[1]))}

-----------------------------------------------------------------------------
(* C1 *)

\* the NOT toggle the editor of child c offers
NotToggleOf(c, idx) ==
  LeafEdit(CASE Editor(c) = "simple" -> "handleNotToggle"
             [] Editor(c) = "count"  -> "handleToggleCountNot"
             [] OTHER                -> "onToggleNot", idx, "")

C1_Leaf(c) ==
  LET t == NotToggleOf(c, 0)
      once == LeafHandler(c, t)
  IN  /\ once = Toggled(c)
      /\ LeafHandler(once, t) = c
      /\ Editor(c) = "count" =>
           LET w == WhereGroupOf(c)
               whereOnce == handleToggleWhereNot(c)
           IN  /\ whereOnce = ReplaceWhere(c, Toggled(w))
               /\ handleToggleWhereNot(whereOnce) = c

C1_Child(path, idx) ==
  LET c == CondsAt(policy, path)[idx + 1]
      t == NotToggleOf(c, idx)
      once == Edit(policy, policy, path, t)
      w == LeafEdit("handleToggleWhereNot", idx, "")
      whereOnce == Edit(policy, policy, path, w)
  IN  /\ CondsAt(once, path) = SetAt(CondsAt(policy, path), idx, Toggled(c))
      /\ Edit(once, once, path, t) = policy
      /\ \A v \in Variants(c) : C1_Leaf(v)
      /\ Editor(c) = "count" =>
           /\ CondsAt(whereOnce, path) =
                SetAt(CondsAt(policy, path), idx, ReplaceWhere(c, Toggled(WhereGroupOf(c))))
           /\ Edit(whereOnce, whereOnce, path, w) = policy

\* C1: Negation involution.  In every reachable document, the NOT toggle of
\* every Simple leaf, Count leaf, nested child group, where-group and of the
\* root group turns an un-negated c into {not: c} and a negated {not: c} into
\* c, changes nothing else, and a second toggle gives back the condition (the
\* document) it started from; for leaves this also holds after their field,
\* operator, value, comparator or threshold has been edited.
C1_NegationInvolution ==
  /\ LET once == handleToggleNot(policy, policy) IN
       /\ once = SetIf(policy, Toggled(IfOf(policy)))
       /\ handleToggleNot(once, once) = policy
  /\ \A pos \in ChildPositions : C1_Child(pos[1], pos[2])

\* a negated root holding a negated Count whose negated where-group holds a
\* negated Simple: every one of the four toggles has acted
C1_Witness ==
  /\ activeTab = "conditions"
  /\ Negated(IfOf(policy))
  /\ \E j \in 1..Len(getCurrentConditions(policy)) :
       LET c == getCurrentConditions(policy)[j] IN
       /\ Negated(c) /\ "count" \in DOMAIN Body(c)
       /\ Negated(WhereGroupOf(c))
       /\ Len(ChildrenOf(WhereGroupOf(c))) = 1
       /\ Negated(ChildrenOf(WhereGroupOf(c))[1])
       /\ "field" \in DOMAIN Body(ChildrenOf(WhereGroupOf(c))[1])

-----------------------------------------------------------------------------
(* C2 *)

C2_Child(path, idx) ==
  LET c == CondsAt(policy, path)[idx + 1]
      t == GroupEdit("handleToggleGroupType", idx, "")
      once == Edit(policy, policy, path, t)
  IN  Editor(c) = "nested" =>
        /\ CondsAt(once, path) = SetAt(CondsAt(policy, path), idx, Flipped(c))
        /\ Edit(once, once, path, t) = policy

C2_Where(path, idx) ==
  LET c == CondsAt(policy, path)[idx + 1]
      t == LeafEdit("handleToggleWhereType", idx, "")
      once == Edit(policy, policy, path, t)
  IN  Editor(c) = "count" =>
        /\ CondsAt(once, path) =
             SetAt(CondsAt(policy, path), idx, ReplaceWhere(c, Flipped(WhereGroupOf(c))))
        /\ Edit(once, once, path, t) = policy

\* C2: Kind toggle.  In every reachable document, the allOf/anyOf toggle of
\* every child group (handleToggleGroupType(idx) of its parent), of the root
\* group and of every where-group swaps the kind key, keeps the children
\* sequence and the NOT wrapper, changes nothing else in the document, and a
\* second toggle gives back the document it started from.
C2_KindToggle ==
  /\ LET once == handleToggleGroupType(policy, policy) IN
       /\ once = SetIf(policy, Flipped(IfOf(policy)))
       /\ handleToggleGroupType(once, once) = policy
  /\ \A pos \in ChildPositions :
       C2_Child(pos[1], pos[2]) /\ C2_Where(pos[1], pos[2])

\* the root toggled to anyOf under NOT, its negated child group toggled to
\* allOf and holding a child
C2_Witness ==
  /\ activeTab = "conditions"
  /\ Negated(IfOf(policy)) /\ KindOf(IfOf(policy)) = "anyOf"
  /\ \E j \in 1..Len(getCurrentConditions(policy)) :
       LET g == getCurrentConditions(policy)[j] IN
       /\ Negated(g) /\ "allOf" \in DOMAIN Body(g)
       /\ Len(Body(g).allOf) = 1

-----------------------------------------------------------------------------
(* C3 *)

\* seq without its element at idx (counted from 0)
Without(seq, idx) ==
  [j \in 1..(Len(seq) - 1) |-> IF j < idx + 1 THEN seq[j] ELSE seq[j + 1]]

C3_At(path, idx) ==
  LET children == CondsAt(policy, path)
      after == CondsAt(Edit(policy, policy, path,
                            GroupEdit("handleRemoveCondition", idx, "")), path)
  IN  IF Len(children) = 1
        THEN after = <<[field |-> "", equals |-> [str |-> ""]]>>
        ELSE after = Without(children, idx)

-----------------------------------------------------------------------------
(* C4 *)

C4_At(path) ==
  LET children == CondsAt(policy, path)
      afterSimple == CondsAt(Edit(policy, policy, path,
                                  GroupEdit("handleAddCondition", 0, "")), path)
      afterCount == CondsAt(Edit(policy, policy, path,
                                 GroupEdit("handleAddCountCondition", 0, "")), path)
      afterGroup == CondsAt(Edit(policy, policy, path,
                                 GroupEdit("handleAddNestedGroup", 0, "")), path)
  IN  /\ afterSimple = <<[field |-> "", equals |-> [str |-> ""]]>> \o children
      /\ afterCount =
           <<[count |-> [field |-> "", where |-> [anyOf |-> <<>>]],
              greater |-> [num |-> 0]]>> \o children
      /\ Len(afterGroup) = Len(children) + 1
      /\ SubSeq(afterGroup, 1, Len(children)) = children
      /\ Body(afterGroup[Len(afterGroup)]) = [anyOf |-> <<>>]

\* C4: Insertion positions.  In every reachable document and for every group,
\* AddSimple puts {field:'', equals:''} in front of the children, AddCount
\* puts {count:{field:'', where:{anyOf:[]}}, greater:0} in front of them, and
\* AddNestedGroup puts an empty group behind them; the children the group had
\* are unchanged and in the same order.
C4_InsertionPositions == \A path \in RootPaths(policy) : C4_At(path)

\* a root with two different children, the second a nested group: an Add in
\* front of them and an Add behind the first have acted
C4_Witness ==
  /\ activeTab = "conditions"
  /\ Len(getCurrentConditions(policy)) = 2
  /\ "count" \in DOMAIN Body(getCurrentConditions(policy)[1])
  /\ Editor(getCurrentConditions(policy)[2]) = "nested"

-----------------------------------------------------------------------------
(* C5 *)

IsGroup(g) == DOMAIN g = {"allOf"} \/ DOMAIN g = {"anyOf"}

RootIsGroup(p) ==
  \/ IsGroup(IfOf(p))
  \/ DOMAIN IfOf(p) = {"not"} /\ IsGroup(IfOf(p)["not"])

\* C5: Root invariant.  In every reachable document, and in every document
\* one edit of a leaf's data away from it, the if-clause is exactly one group
\* {allOf|anyOf: [...]} or one negated group {not: {allOf|anyOf: [...]}}.
C5_RootInvariant == \A p \in DataEdited(policy) : RootIsGroup(p)

\* a negated anyOf root that holds a single Simple leaf
C5_Witness ==
  /\ activeTab = "conditions"
  /\ DOMAIN IfOf(policy) = {"not"}
  /\ DOMAIN IfOf(policy)["not"] = {"anyOf"}
  /\ Len(IfOf(policy)["not"].anyOf) = 1
  /\ "field" \in DOMAIN Body(IfOf(policy)["not"].anyOf[1])

-----------------------------------------------------------------------------
(* C6 *)

\* no `not` node under c (c included) directly wraps another `not` node
RECURSIVE NoDoubleNot(_)
NoDoubleNot(c) ==
  IF "not" \in DOMAIN c
    THEN "not" \notin DOMAIN c["not"] /\ NoDoubleNot(c["not"])
  ELSE /\ "allOf" \in DOMAIN c => \A j \in 1..Len(c.allOf) : NoDoubleNot(c.allOf[j])
       /\ "anyOf" \in DOMAIN c => \A j \in 1..Len(c.anyOf) : NoDoubleNot(c.anyOf[j])
       /\ "count" \in DOMAIN c => NoDoubleNot(c.count.where)

\* C6: No double NOT.  In every reachable document, and in every document one
\* edit of a leaf's data away from it, no `not` node directly wraps another
\* `not` node.
C6_NoDoubleNot == \A p \in DataEdited(policy) : NoDoubleNot(IfOf(p))

\* under a negated root, a negated child group (AddNestedGroup under a negated
\* parent) that holds a negated Simple
C6_Witness ==
  /\ activeTab = "conditions"
  /\ Negated(IfOf(policy))
  /\ \E j \in 1..Len(getCurrentConditions(policy)) :
       LET g == getCurrentConditions(policy)[j] IN
       /\ Negated(g) /\ "anyOf" \in DOMAIN Body(g)
       /\ Len(Body(g).anyOf) = 1
       /\ Negated(Body(g).anyOf[1])
       /\ "field" \in DOMAIN Body(Body(g).anyOf[1])

-----------------------------------------------------------------------------
(* C7 *)

OneKind(g) == ("allOf" \in DOMAIN g) # ("anyOf" \in DOMAIN g)

\* every group node under group g (g included, negated or not) has one kind
RECURSIVE GroupsHaveOneKind(_)
GroupsHaveOneKind(g) ==
  /\ OneKind(Body(g))
  /\ \A k \in DOMAIN Body(g) \cap {"allOf", "anyOf"} :
       \A j \in 1..Len(Body(g)[k]) :
         LET c == Body(Body(g)[k][j]) IN
         IF "field" \in DOMAIN c THEN TRUE
         ELSE IF "count" \in DOMAIN c THEN GroupsHaveOneKind(c.count.where)
         ELSE GroupsHaveOneKind(c)

\* C7: Exactly one kind.  In every reachable document, and in every document
\* one edit of a leaf's data away from it, every group node (the root, nested
\* child groups, where-groups, negated or not) carries exactly one of the keys
\* allOf and anyOf.
C7_ExactlyOneKind == \A p \in DataEdited(policy) : GroupsHaveOneKind(IfOf(p))

\* an anyOf root holding a Count whose where-group, toggled to allOf and
\* negated, holds a nested group toggled to allOf
C7_Witness ==
  /\ activeTab = "conditions"
  /\ KindOf(IfOf(policy)) = "anyOf"
  /\ \E j \in 1..Len(getCurrentConditions(policy)) :
       LET c == getCurrentConditions(policy)[j] IN
       /\ "count" \in DOMAIN Body(c)
       /\ Negated(WhereGroupOf(c)) /\ KindOf(WhereGroupOf(c)) = "allOf"
       /\ Len(ChildrenOf(WhereGroupOf(c))) = 1
       /\ DOMAIN ChildrenOf(WhereGroupOf(c))[1] = {"allOf"}

-----------------------------------------------------------------------------
(* C8 *)

\* C8: No lost updates.  Every commit of a deferred blur handler produces the
\* document that its edit produces when it is applied to the document the
\* previous edit left: no completed edit is undone by it.
C8_NoLostUpdate == last.fresh

-----------------------------------------------------------------------------
(* C9 *)

\* C9: Effect/allowedValues invariant.  In every reachable state the effect
\* parameter's allowedValues is [Modify, Disabled] when the selected effect is
\* modify and [Audit, Deny, Disabled] otherwise.
C9_EffectAllowedValues ==
  LET effect == policy.properties.parameters.effect IN
  /\ "allowedValues" \in DOMAIN effect
  /\ effect.allowedValues = IF selectedEffect = "modify" THEN <<"Modify", "Disabled">>
                            ELSE <<"Audit", "Deny", "Disabled">>

-----------------------------------------------------------------------------
(* C10 *)

\* C10: Reserved effect parameter.  In every reachable state the parameters
\* hold the key `effect`; handleRemoveParameter('effect') gives back the
\* document, handleEditParameter('effect') gives back the parameter form and
\* editingParameter, and handleRemoveParameter of any other name of the
\* parameters takes out that key and changes nothing else.
C10_ReservedEffect ==
  LET parameters == policy.properties.parameters IN
  /\ "effect" \in DOMAIN parameters
  /\ handleRemoveParameter(policy, "effect") = policy
  /\ handleEditParameter("effect", parameters.effect, parameterForm, editingParameter)
       = [parameterForm |-> parameterForm, editingParameter |-> editingParameter]
  /\ \A name \in DOMAIN parameters \ {"effect"} :
       LET after == handleRemoveParameter(policy, name) IN
       /\ DOMAIN after.properties.parameters = DOMAIN parameters \ {name}
       /\ \A k \in DOMAIN parameters \ {name} : after.properties.parameters[k] = parameters[k]
       /\ [after EXCEPT !.properties.parameters = parameters] = policy

\* the Parameters tab shows a second parameter next to `effect`, with the
\* form naming the reserved parameter
C10_Witness ==
  /\ activeTab = "parameters"
  /\ DOMAIN policy.properties.parameters = {"effect", "tags"}
  /\ parameterForm.name = "effect"

-----------------------------------------------------------------------------
(* C11 *)

\* the indices next to the children of a group that name no child
MalformedIndices(conditions) == {-1, Len(conditions)}

C11_At(path) ==
  LET conditions == CondsAt(policy, path) IN
  /\ \A idx \in MalformedIndices(conditions) :
       /\ handleUpdateCondition(conditions, idx, NewSimple) = conditions
       /\ handleRemoveCondition(conditions, idx) = conditions
       /\ handleMoveCondition(conditions, idx, "up") = conditions
       /\ handleMoveCondition(conditions, idx, "down") = conditions
       /\ useConditionGroup_handleToggleGroupType(conditions, idx) = conditions
  /\ \A idx \in 0..(Len(conditions) - 1) :
       Editor(conditions[idx + 1]) # "nested" =>
         useConditionGroup_handleToggleGroupType(conditions, idx) = conditions

\* C11: Malformed edit targets are rejected without side effect.  For every
\* group of every reachable document, UpdateChild, MoveChild and RemoveChild
\* with an index that names no child, and ToggleGroupKind of a child that is
\* no group, hand the group the children sequence it had: no hole, no
\* undefined element, no changed length, no replaced child.
C11_MalformedRejected == \A path \in RootPaths(policy) : C11_At(path)

-----------------------------------------------------------------------------
(* C12 *)

\* C12: Manual JSON edit, failure path.  In every reachable state, a text
\* that does not parse as JSON leaves the document as it is; the handler
\* writes nothing but the document, so the selected effect and the active tab
\* stay as well, and every edit that was possible before is possible after.
C12_ParseFailureDiscarded ==
  \A value \in EditorTexts :
    ~ParseDocument(value).ok => handleEditorChange(policy, value) = policy

\* a text that does not parse was handed to the editor of an edited document
\* while the Conditions tab was open under the effect modify
C12_Witness ==
  /\ last.op = "handleEditorChange: Invalid JSON"
  /\ policy # initialPolicyTemplate
  /\ selectedEffect = "modify"
  /\ activeTab = "conditions"

-----------------------------------------------------------------------------
(* C13 *)

\* C13: ClearAll only at the root.  In every reachable document, the only
\* rendered group that offers Clear All for its children is the root group of
\* the if-clause: no nested child group and no where-group of a Count has
\* children that Clear All would empty.
C13_ClearAllOnlyAtRoot ==
  \A path \in RootPaths(policy) :
    (showClearAll(path) /\ CondsAt(policy, path) # <<>>
       /\ CondsAt(Edit(policy, policy, path, GroupEdit("onClearAll", 0, "")), path) = <<>>)
      => path = <<>>

-----------------------------------------------------------------------------
(* C14 *)

\* C14: ClearAll effect.  In every reachable document, Clear All of the root
\* group leaves a root of the same kind and the same negation state whose
\* children are the empty sequence, and changes nothing else in the document.
C14_ClearAllEffect ==
  LET root == IfOf(policy)
      after == Edit(policy, policy, <<>>, GroupEdit("onClearAll", 0, ""))
      cleared == KindOf(root) :> <<>>
  IN  /\ Negated(IfOf(after)) = Negated(root)
      /\ DOMAIN Body(IfOf(after)) = {KindOf(root)}
      /\ ChildrenOf(IfOf(after)) = <<>>
      /\ after = SetIf(policy, IF Negated(root) THEN [not |-> cleared] ELSE cleared)

\* a negated anyOf root with two children, on the tab that shows Clear All
C14_Witness ==
  /\ activeTab = "conditions"
  /\ Negated(IfOf(policy)) /\ KindOf(IfOf(policy)) = "anyOf"
  /\ Len(ChildrenOf(IfOf(policy))) = 2

-----------------------------------------------------------------------------
(* C15 *)

Move(p, path, idx, direction) ==
  Edit(p, p, path, GroupEdit("handleMoveCondition", idx, direction))

\* the document as it is and after one more child is added to one of its groups
Grown(p) ==
  {p} \cup {Edit(p, p, path, GroupEdit(op, 0, "")) :
              path \in RootPaths(p),
              op \in {"handleAddCondition", "handleAddCountCondition", "handleAddNestedGroup"}}

C15_At(p, path) ==
  LET n == Len(CondsAt(p, path)) IN
  n >= 1 =>
    /\ CondsAt(Move(p, path, 0, "up"), path) = CondsAt(p, path)
    /\ CondsAt(Move(p, path, n - 1, "down"), path) = CondsAt(p, path)
    /\ Move(p, path, 0, "up") = p
    /\ Move(p, path, n - 1, "down") = p

\* C15: Move boundary no-ops.  In every reachable document, and in every
\* document one added child away from it, for every group with at least one
\* child, moving the first child up and moving the last child down leave the
\* children sequence, and the document, as they are.
C15_MoveBoundary ==
  \A p \in Grown(policy) : \A path \in RootPaths(p) : C15_At(p, path)

\* a root whose only child is a negated group with a single child: in both
\* groups the first child is the last
C15_Witness ==
  /\ activeTab = "conditions"
  /\ Len(getCurrentConditions(policy)) = 1
  /\ Editor(getCurrentConditions(policy)[1]) = "nested"
  /\ Negated(getCurrentConditions(policy)[1])
  /\ Len(ChildrenOf(getCurrentConditions(policy)[1])) = 1

-----------------------------------------------------------------------------
(* C16 *)

\* seq with its elements at i and i + 1 (counted from 0) exchanged
Swapped(seq, i) ==
  [j \in 1..Len(seq) |-> IF j = i + 1 THEN seq[i + 2]
                         ELSE IF j = i + 2 THEN seq[i + 1] ELSE seq[j]]

\* the multiset of the elements of seq
BagOf(seq) == [x \in {seq[j] : j \in 1..Len(seq)} |->
                 Cardinality({j \in 1..Len(seq) : seq[j] = x})]

C16_At(p, path) ==
  LET children == CondsAt(p, path) IN
  \A i \in 0..(Len(children) - 2) :
    LET down == Move(p, path, i, "down")
        up == Move(p, path, i + 1, "up")
    IN  /\ CondsAt(down, path) = Swapped(children, i)
        /\ up = down
        /\ BagOf(CondsAt(down, path)) = BagOf(children)
        /\ Move(down, path, i + 1, "up") = p
        /\ Len(children) = 2 => Move(down, path, 0, "down") = p

\* C16: Move is a neighbour swap.  In every reachable document, and in every
\* document one added child away from it, for every
\* two neighbours i, i+1 of every group, moving i down exchanges the two and
\* leaves every other child in place, moving i+1 up gives the same document,
\* the multiset of children is kept, moving i down and then i+1 up gives back
\* the document, and in a group of two moving the first child down twice
\* gives back the document.
C16_MoveSwap ==
  \A p \in Grown(policy) : \A path \in RootPaths(p) : C16_At(p, path)

\* a root that holds two different children, a negated Simple in front of a
\* negated Count: with one more child it is a group of three
C16_Witness ==
  /\ activeTab = "conditions"
  /\ Len(getCurrentConditions(policy)) = 2
  /\ Negated(getCurrentConditions(policy)[1]) /\ Negated(getCurrentConditions(policy)[2])
  /\ Editor(getCurrentConditions(policy)[1]) = "simple"
  /\ Editor(getCurrentConditions(policy)[2]) = "count"

-----------------------------------------------------------------------------
(* C17 *)

\* the group node (with its NOT wrapper) that is rendered at `path` below node g
RECURSIVE NodeAt(_, _)
NodeAt(g, path) ==
  IF path = <<>> THEN g
  ELSE LET child == ChildrenOf(g)[Head(path).i + 1] IN
       NodeAt(IF Head(path).k = "where" THEN WhereGroupOf(child) ELSE child, Tail(path))

C17_At(path) ==
  LET parent == NodeAt(IfOf(policy), path)
      added(op) == CondsAt(Edit(policy, policy, path, GroupEdit(op, 0, "")), path)
      afterGroup == added("handleAddNestedGroup")
  IN  /\ afterGroup[Len(afterGroup)] =
           IF Negated(parent) THEN [not |-> [anyOf |-> <<>>]] ELSE [anyOf |-> <<>>]
      /\ added("handleAddCondition")[1] = [field |-> "", equals |-> [str |-> ""]]
      /\ added("handleAddCountCondition")[1] =
           [count |-> [field |-> "", where |-> [anyOf |-> <<>>]], greater |-> [num |-> 0]]

\* C17: AddNestedGroup negation matching.  In every reachable document and
\* for every group (root, child group, where-group), the child appended by
\* AddNestedGroup is {not: {anyOf: []}} when the group is negated and
\* {anyOf: []} when it is not, and the child put in front by AddSimple and
\* by AddCount is never wrapped.
C17_NestedGroupMatchesNot == \A path \in RootPaths(policy) : C17_At(path)

\* an un-negated root holding a Count whose negated where-group holds the
\* wrapped empty group that AddNestedGroup appended
C17_Witness ==
  /\ activeTab = "conditions"
  /\ ~Negated(IfOf(policy))
  /\ Len(getCurrentConditions(policy)) = 1
  /\ LET c == getCurrentConditions(policy)[1] IN
       /\ "count" \in DOMAIN Body(c)
       /\ Negated(WhereGroupOf(c))
       /\ ChildrenOf(WhereGroupOf(c)) = <<[not |-> [anyOf |-> <<>>]]>>

-----------------------------------------------------------------------------
(* C18 *)

\* the comparator keys of a (possibly negated) Count
ComparatorsOf(c) == DOMAIN Body(c) \ {"count"}

C18_Count(c) ==
  \A k2 \in COUNT_OPERATORS :
    LET k1 == CHOOSE k \in ComparatorsOf(c) : TRUE
        v == Body(c)[k1]
        after == LeafHandler(c, LeafEdit("countOperatorChange", 0, k2))
    IN  /\ ComparatorsOf(after) = {k2}
        /\ Body(after)[k2] = v
        /\ Body(after).count = Body(c).count
        /\ Negated(after) = Negated(c)
        /\ DOMAIN after = IF Negated(c) THEN {"not"} ELSE {"count", k2}

C18_At(path, idx) ==
  LET c == CondsAt(policy, path)[idx + 1] IN
  Editor(c) = "count" =>
    /\ Cardinality(ComparatorsOf(c)) = 1
    /\ C18_Count(c)
    /\ \A k2 \in COUNT_OPERATORS :
         LET e == LeafEdit("countOperatorChange", idx, k2) IN
         CondsAt(Edit(policy, policy, path, e), path) =
           SetAt(CondsAt(policy, path), idx, LeafHandler(c, e))

\* C18: Count comparator change.  For every Count (negated or not) of every
\* reachable document, with comparator k1 and threshold v, changing the
\* comparator to k2 gives a Count whose only comparator key is k2, with value
\* v, with the same count.field and count.where and the same negation state,
\* and replaces nothing but that Count in its group.
C18_ComparatorChange == \A pos \in ChildPositions : C18_At(pos[1], pos[2])

\* a negated Count with a picked field whose threshold was typed and whose
\* comparator was changed afterwards
C18_Witness ==
  /\ activeTab = "conditions"
  /\ \E j \in 1..Len(getCurrentConditions(policy)) :
       LET c == getCurrentConditions(policy)[j] IN
       /\ Negated(c) /\ "count" \in DOMAIN Body(c)
       /\ Body(c).count.field = "ips[*]"
       /\ DOMAIN Body(c) = {"count", "less"}
       /\ Body(c).less = [num |-> 5]

-----------------------------------------------------------------------------
(* C19 *)

\* the operator key of a (possibly negated) Simple
OperatorOf(c) == CHOOSE k \in DOMAIN Body(c) \ {"field"} : TRUE

C19_At(path, idx) ==
  LET c == CondsAt(policy, path)[idx + 1] IN
  Editor(c) = "simple" =>
    LET value == Body(c)[OperatorOf(c)] IN
    IF OperatorOf(c) \in {"in", "notIn"}
      THEN "arr" \in DOMAIN value \/ "str" \in DOMAIN value
      ELSE "str" \in DOMAIN value

\* C19: Simple value typing.  In every reachable document, the value of a
\* Simple is an array only while its operator is `in` or `notIn`; under every
\* other operator it is a string.
C19_SimpleValueTyping == \A pos \in ChildPositions : C19_At(pos[1], pos[2])

-----------------------------------------------------------------------------
(* C20 *)

\* C20: Details only with Modify.  In every reachable state the then-block
\* holds a `details` block if and only if the selected effect is modify.
C20_DetailsOnlyWithModify ==
  ("details" \in DOMAIN policy.properties.policyRule.then) <=> (selectedEffect = "modify")

-----------------------------------------------------------------------------
(* C21 *)

BadName(form) == form.name \in {"", " ", "a b"}
BadAllowedValues(form) ==
  form.allowedValues # <<>> /\ form.allowedValues[1] \in NotJSONArrayTexts
BadDefaultValue(form) ==
  form.type \in {"object", "array"} /\ form.defaultValue \in NotJSONTexts

\* C21: Invalid parameter input is reported and changes nothing.  In every
\* reachable state whose parameter form holds an empty or blank name, a name
\* with a space, allowed-values text that is no JSON array, or (type object
\* or array) default-value text that is no JSON, the submit leaves the
\* document and the form as they are and sets the error message of the first
\* offending field (name, then allowed values, then default value).
C21_InvalidInputRejected ==
  LET form == parameterForm
      after == AfterSubmit(FormState)
  IN  (BadName(form) \/ BadAllowedValues(form) \/ BadDefaultValue(form)) =>
        /\ after.policy = policy
        /\ after.parameterForm = form
        /\ after.editingParameter = editingParameter
        /\ IF BadName(form) THEN after.nameError # ""
           ELSE IF BadAllowedValues(form) THEN after.allowedValuesError # ""
           ELSE after.defaultValueError # ""

\* next to a parameter added before, the form of an array parameter was
\* submitted with a default value that is no JSON
C21_Witness ==
  /\ activeTab = "parameters"
  /\ "tags" \in DOMAIN policy.properties.parameters
  /\ parameterForm.type = "array" /\ parameterForm.defaultValue = "{"
  /\ defaultValueError = "Invalid JSON format"

-----------------------------------------------------------------------------
(* C22 *)

\* C22: Round-trip serialization.  For every reachable document, the text
\* the preview writes for it, handed to handleEditorChange, gives back a
\* document equal to it.
C22_RoundTrip == handleEditorChange(policy, JSONStringifyDocument(policy)) = policy

-----------------------------------------------------------------------------
(* C23 *)

\* group g with other children, its kind and its negation kept
WithChildren(g, children) ==
  LET b == KindOf(g) :> children IN
  IF Negated(g) THEN [not |-> b] ELSE b

\* node g with the children of the group at `path` below it replaced and
\* nothing else touched
RECURSIVE ReplaceAt(_, _, _)
ReplaceAt(g, path, children) ==
  IF path = <<>> THEN WithChildren(g, children)
  ELSE
    LET i == Head(path).i + 1
        child == ChildrenOf(g)[i]
        newChild ==
          IF Head(path).k = "where"
            THEN ReplaceWhere(child, ReplaceAt(WhereGroupOf(child), Tail(path), children))
            ELSE ReplaceAt(child, Tail(path), children)
    IN  WithChildren(g, [ChildrenOf(g) EXCEPT ![i] = newChild])

\* the edits of the child at idx that its editor offers: its NOT toggle, the
\* edits of its data, the toggles of a Count's where-group
ChildEdits(c, idx) ==
  {NotToggleOf(c, idx)} \cup DataEdits(c, idx)
    \cup (IF Editor(c) = "count"
           THEN {LeafEdit("handleToggleWhereType", idx, ""),
                 LeafEdit("handleToggleWhereNot", idx, "")}
         ELSE IF Editor(c) = "nested"
           THEN {GroupEdit("handleToggleGroupType", idx, "")}
         ELSE {})

\* the edits of a group that add, remove or move a child
SequenceEdits(children) ==
  {GroupEdit(op, 0, "") :
     op \in {"handleAddCondition", "handleAddCountCondition", "handleAddNestedGroup"}}
    \cup {GroupEdit("handleRemoveCondition", idx, "") : idx \in 0..(Len(children) - 1)}
    \cup {GroupEdit("handleMoveCondition", idx, d) :
            idx \in 0..(Len(children) - 1), d \in {"up", "down"}}

C23_At(p, path) ==
  LET children == CondsAt(p, path)
      local(e) == GroupHandler(children, RootPropsAt(p, path).isNot, e)
      expected(e) == SetIf(p, ReplaceAt(IfOf(p), path, local(e)))
  IN  /\ \A e \in SequenceEdits(children) : Edit(p, p, path, e) = expected(e)
      /\ \A idx \in 0..(Len(children) - 1) :
           \A e \in ChildEdits(children[idx + 1], idx) :
             /\ Edit(p, p, path, e) = expected(e)
             /\ Len(local(e)) = Len(children)
             /\ \A j \in 1..Len(children) : j # idx + 1 => local(e)[j] = children[j]

\* C23: Edit locality.  In every reachable document, and in every document
\* one added child away from it, an edit run by the group at a path (add,
\* remove, move, and for one child the edits of its editor, its kind toggle
\* and its NOT toggle) gives the document in which the children of that
\* group are what the group's handler made of them and every ancestor's kind
\* and negation, every sibling subtree, the metadata, the parameters and the
\* then-block are as before; an edit of one child leaves the other children
\* of the group as they are.
C23_EditLocality ==
  \A p \in Grown(policy) : \A path \in RootPaths(p) : C23_At(p, path)

\* a negated root whose only child is a negated group that was handed a
\* Simple: with one more child the root holds a sibling subtree
C23_Witness ==
  /\ activeTab = "conditions"
  /\ Negated(IfOf(policy))
  /\ Len(getCurrentConditions(policy)) = 1
  /\ LET g == getCurrentConditions(policy)[1] IN
       /\ Editor(g) = "nested" /\ Negated(g)
       /\ Len(ChildrenOf(g)) = 1
       /\ Editor(ChildrenOf(g)[1]) = "simple"

-----------------------------------------------------------------------------
(* C24 *)

\* a value that is a number
IsNumber(v) == "num" \in DOMAIN v \/ v = Infinity

\* every comparator of the (possibly negated) Count c holds a number
NumericThreshold(c) == \A k \in ComparatorsOf(c) : IsNumber(Body(c)[k])

C24_At(path, idx) ==
  LET c == CondsAt(policy, path)[idx + 1] IN
  Editor(c) = "count" =>
    /\ NumericThreshold(c)
    /\ \A text \in ThresholdInputs \cup {""} :
         NumericThreshold(LeafHandler(c, LeafEdit("countValueChange", 0, text)))

\* C24: Count threshold typing.  In every reachable document the value under
\* the comparator key of every Count is a number, and it is a number after
\* the threshold input is handed any text (numeric, non-numeric, empty).
C24_CountThresholdTyping == \A pos \in ChildPositions : C24_At(pos[1], pos[2])

-----------------------------------------------------------------------------
(* C25 *)

\* the shape of a well-formed condition, read from its JSON: what is under
\* the NOT wrapper, if there is one, is a Count, a group or a Simple
ShapeOf(c) ==
  IF "count" \in DOMAIN Body(c) THEN "count"
  ELSE IF DOMAIN Body(c) \cap {"allOf", "anyOf"} # {} THEN "nested"
  ELSE "simple"

\* the guards that hold of c
GuardsOf(c) ==
  {g \in {"simple", "count", "nested"} :
     CASE g = "simple" -> isSimpleCondition(c)
       [] g = "count"  -> isCountCondition(c)
       [] g = "nested" -> isNestedCondition(c)}

C25_At(path, idx) ==
  \A c \in Variants(CondsAt(policy, path)[idx + 1]) :
    /\ GuardsOf(c) = {ShapeOf(c)}
    /\ Editor(c) = ShapeOf(c)
    /\ GuardsOf(Toggled(c)) = {ShapeOf(c)}
    /\ Editor(Toggled(c)) = ShapeOf(c)

\* C25: Type guards partition the well-formed shapes.  For every child of
\* every group of every reachable document, as it is, after an edit of its
\* data, and with its NOT wrapper added or removed, exactly one of
\* isSimpleCondition, isCountCondition, isNestedCondition holds, it is the
\* one of the child's shape, and ConditionItem renders the editor of that
\* shape (so the order of its tests does not matter).
C25_GuardsPartition == \A pos \in ChildPositions : C25_At(pos[1], pos[2])

\* a root holding a negated Count and a negated group
C25_Witness ==
  /\ activeTab = "conditions"
  /\ \E i, j \in 1..Len(getCurrentConditions(policy)) :
       LET a == getCurrentConditions(policy)[i]
           b == getCurrentConditions(policy)[j]
       IN  /\ Negated(a) /\ "count" \in DOMAIN Body(a)
           /\ Negated(b) /\ DOMAIN Body(b) \cap {"allOf", "anyOf"} # {}

-----------------------------------------------------------------------------
(* C26 *)

\* the edits of a Count's where-clause, as the Count's editor hands them on:
\* its children replaced, its kind toggled, its NOT toggled
WhereEdited(c) ==
  {handleWhereConditionsUpdate(c, conditions) :
     conditions \in {<<>>, <<NewSimple>>, <<NewSimple>> \o ChildrenOf(WhereGroupOf(c))}}
    \cup {handleToggleWhereType(c), handleToggleWhereNot(c)}

C26_Leaf(c) ==
  /\ \A e \in DataEdits(c, 0) : Negated(LeafHandler(c, e)) = Negated(c)
  /\ Editor(c) = "count" =>
       /\ \A r \in WhereEdited(c) : r = ReplaceWhere(c, WhereGroupOf(r))
       /\ \A e \in DataEdits(c, 0) \cup {NotToggleOf(c, 0)} :
            WhereGroupOf(LeafHandler(c, e)) = WhereGroupOf(c)

\* C26: Leaf edits preserve negation and unrelated parts.  For every Simple
\* and Count child of every reachable document, as it is and after edits of
\* its data: an edit of the field, operator or value of a Simple, or of the
\* field, comparator or threshold of a Count, leaves the leaf negated exactly
\* when it was; an edit of a Count's where-clause (children, kind, NOT)
\* changes nothing of the Count but its where-clause; an edit of the Count's
\* field, comparator, threshold or negation leaves its where-clause as it is.
C26_LeafEditsPreserve ==
  \A pos \in ChildPositions :
    \A c \in Variants(CondsAt(policy, pos[1])[pos[2] + 1]) : C26_Leaf(c)

\* a negated Count whose where-group was toggled to allOf and holds a child
C26_Witness ==
  /\ activeTab = "conditions"
  /\ \E j \in 1..Len(getCurrentConditions(policy)) :
       LET c == getCurrentConditions(policy)[j] IN
       /\ Negated(c) /\ "count" \in DOMAIN Body(c)
       /\ KindOf(WhereGroupOf(c)) = "allOf"
       /\ Len(ChildrenOf(WhereGroupOf(c))) = 1

-----------------------------------------------------------------------------
(* C27 *)

\* the options of the effect <select> and their capitalised names
EffectOptions == {"audit", "deny", "modify", "disabled"}
Capitalised == [audit |-> "Audit", deny |-> "Deny", modify |-> "Modify",
                disabled |-> "Disabled"]

\* record o without the keys in ks
OmitKeys(o, ks) == [k \in DOMAIN o \ ks |-> o[k]]

C27_For(v) ==
  LET after == handleEffectChange(policy, v)
      old == policy.properties.parameters
      new == after.properties.parameters
  IN  /\ new.effect.defaultValue = [str |-> Capitalised[v]]
      /\ \E j \in 1..Len(new.effect.allowedValues) :
           new.effect.allowedValues[j] = Capitalised[v]
      /\ OmitKeys(new.effect, {"defaultValue", "allowedValues"})
           = OmitKeys(old.effect, {"defaultValue", "allowedValues"})
      /\ OmitKeys(new, {"effect"}) = OmitKeys(old, {"effect"})
      /\ IfOf(after) = IfOf(policy)
      /\ [after EXCEPT !.properties.parameters = old,
                       !.properties.policyRule.then = policy.properties.policyRule.then]
           = policy

\* C27: Effect default is always allowed.  In every reachable state and for
\* each option v of the effect select, after handleEffectChange(v) the effect
\* parameter's defaultValue is v capitalised and is one of its new
\* allowedValues; the other fields of the effect parameter, the other
\* parameters, the if-clause and everything but the then-block are unchanged.
C27_EffectDefaultAllowed == \A v \in EffectOptions : C27_For(v)

\* the effect was changed to modify in a document that holds another
\* parameter
C27_Witness ==
  /\ selectedEffect = "modify"
  /\ policy.properties.parameters.effect.defaultValue = [str |-> "Modify"]
  /\ DOMAIN policy.properties.parameters # {"effect"}

-----------------------------------------------------------------------------
(* C28 *)

\* the then-block of a document whose effect has just become modify
FreshThen ==
  [effect  |-> "[parameters('effect')]",
   details |-> [roleDefinitionIds |-> <<>>,
                operations |-> <<[operation |-> "add", field |-> "", value |-> ""]>>]]

\* the document as it is and, while it has details, with a role picked
WithRoles(p) ==
  {p} \cup (IF "details" \in DOMAIN p.properties.policyRule.then
             THEN {handleUpdateDetails(p, handleUpdateRoles(p, <<"role">>))}
           ELSE {})

C28_For(p) ==
  /\ handleEffectChange(p, "modify").properties.policyRule.then = FreshThen
  /\ \A v \in {"audit", "deny", "disabled"} :
       handleEffectChange(handleEffectChange(p, v), "modify").properties.policyRule.then
         = FreshThen

\* C28: Selecting modify resets details.  In every reachable state, with or
\* without a role picked, handleEffectChange('modify') gives a then-block
\* whose details are roleDefinitionIds = [], no conflictEffect and the one
\* operation {operation: 'add', field: '', value: ''}, and so does
\* handleEffectChange('modify') after handleEffectChange of another effect:
\* role ids, conflict effect and operations entered before are gone.
C28_ModifyResetsDetails == \A p \in WithRoles(policy) : C28_For(p)

\* modify is selected and the details are fresh, while a pending timer holds
\* the render of an earlier selection of modify with a conflict effect set:
\* the effect went from modify to another effect and back to modify
C28_Witness ==
  /\ selectedEffect = "modify"
  /\ policy.properties.policyRule.then = FreshThen
  /\ \E t \in timers :
       /\ "seen" \in DOMAIN t
       /\ DetailsProp(t.seen, "conflictEffect", "") = "audit"

-----------------------------------------------------------------------------
(* C29 *)

\* C29: Details tab reachability.  In every reachable state, the active tab
\* is the Details tab only while the selected effect is modify.
C29_DetailsTabOnlyWithModify == (activeTab = "details") => (selectedEffect = "modify")

\* the Details tab is open under modify and its editor has been used: a
\* conflict effect is set and an operation was added
C29_Witness ==
  /\ activeTab = "details"
  /\ selectedEffect = "modify"
  /\ DetailsProp(policy, "conflictEffect", "") = "audit"
  /\ Len(DetailsProp(policy, "operations", <<>>)) = 2

-----------------------------------------------------------------------------
(* C30 *)

\* texts that parse: the text of the initial template, the text of the
\* document itself, and texts of values that are no document
ParsingTexts == {templateText, JSONStringifyDocument(policy),
                 Chars("5"), Chars("[]"), Chars("{}")}

C30_Replaces ==
  /\ handleEditorChange(policy, Chars("")) = policy
  /\ \A value \in ParsingTexts :
       /\ ParseDocument(value).ok
       /\ handleEditorChange(policy, value) = ParseDocument(value).val
  /\ handleEditorChange(policy, Chars("5")) = [num |-> 5]
  /\ handleEditorChange(policy, templateText) = initialPolicyTemplate

C30_Step ==
  (last' # last /\ last'.op = "handleEditorChange") =>
    /\ policy' = initialPolicyTemplate
    /\ selectedEffect' = selectedEffect
    /\ activeTab' = activeTab

\* C30: Manual JSON edit, success path.  In every reachable state
\* handleEditorChange leaves the document as it is for the empty text and,
\* for a text that parses, gives the parsed value itself, whether or not it
\* has the shape of a document; a step of the handler with a text that
\* parses leaves the selected effect and the active tab as they are.
C30_ParseSuccessReplaces == []C30_Replaces /\ [][C30_Step]_vars

\* the template's text was handed to the editor after modify was selected
\* and the Conditions tab opened: the document is the template again, without
\* the details that modify had installed
C30_Witness ==
  /\ last.op = "handleEditorChange"
  /\ policy = initialPolicyTemplate
  /\ selectedEffect = "modify"
  /\ activeTab = "conditions"

====
